---------------------------- MODULE Spec2Model ----------------------------
(***************************************************************************)
(* Model of the text-ordering and link-detection core of                   *)
(* klassijs-smart-ocr (src/src/smartOcr.js).                               *)
(*                                                                         *)
(* Texts are strings; a string is used as the sequence of its characters   *)
(* (Len, SubSeq and \o act on it).  The regular expressions of the source  *)
(* are kept as regular expressions: each is written as a syntax tree       *)
(* (Lit, Cls, Seq, Alt, Opt, Star, WB, BOL, EOL) and run by Ends, a        *)
(* backtracking matcher with the priority order of the JavaScript engine   *)
(* (greedy quantifiers, leftmost alternative first).                       *)
(*                                                                         *)
(* A value that is used more than once is handed on as the argument of an  *)
(* operator (trimKept, ClsEnds, withLastBlock, ...) and not named by a LET: *)
(* TLC works an argument out once, and a LET definition at each use.       *)
(***************************************************************************)
EXTENDS Integers, Sequences, FiniteSets, TLC

VARIABLES
    pc,             \* position of the modelled call
    cleanedText,    \* extractText: cleanedText, the input of the ordering stage
    analyzedLines,  \* fixTextOrdering: analyzedLines
    contentBlocks,  \* fixTextOrdering: contentBlocks (before / after the sort)
    orderedText,    \* extractText: orderedText
    line,           \* the line handed to the line classifier
    analyzed,       \* the classifier's record for line
    inputText,      \* the text handed to extractLinks or to makeLinksClickable
    extracted,      \* what extractLinks returned
    givenLinks,     \* the links handed to makeLinksClickable
    clickableText,  \* what makeLinksClickable returned
    aLink,          \* the link handed to categorizeLinkType
    category,       \* what categorizeLinkType returned
    givenText,      \* the text handed to a function that is applied twice
    fixedOnce,      \* what the function returned for givenText
    fixedTwice,     \* what the function returned for fixedOnce
    filePaths,      \* batchExtract: filePaths
    calls,          \* the extractText calls, one frame for each
    results,        \* batchExtract: results
    batch,          \* the promise batchExtract returned
    disk,           \* the report files written, by path
    _worker,        \* the module variable _worker
    _workerPromise, \* the module variable _workerPromise
    created,        \* the workers createWorker has been asked for
    getting,        \* the getWorker calls, one frame for each
    waiting         \* the waitForText call: its frame

orderVars == <<cleanedText, analyzedLines, contentBlocks, orderedText>>
classifyVars == <<line, analyzed>>
linkVars == <<inputText, extracted, givenLinks, clickableText, aLink, category>>
twiceVars == <<givenText, fixedOnce, fixedTwice>>
fileVars == <<filePaths, calls, results, batch, disk>>
workerVars == <<_worker, _workerPromise, created, getting>>
waitVars == <<waiting>>
vars == <<pc, orderVars, classifyVars, linkVars, twiceVars, fileVars, workerVars, waitVars>>

-----------------------------------------------------------------------------
(* Characters *)

UpperAlpha == "ABCDEFGHIJKLMNOPQRSTUVWXYZ"
LowerAlpha == "abcdefghijklmnopqrstuvwxyz"
DigitChars == "0123456789"

Ch(s, i) == SubSeq(s, i, i)
CharsOf(s) == {Ch(s, k) : k \in 1..Len(s)}

UpperSet == CharsOf(UpperAlpha)
LowerSet == CharsOf(LowerAlpha)
DigitSet == CharsOf(DigitChars)
AlphaSet == UpperSet \cup LowerSet
AlnumSet == AlphaSet \cup DigitSet
\* \w of a JavaScript regular expression
WordSet == AlnumSet \cup {"_"}
\* \s, and what String.prototype.trim removes (the characters a model string can hold)
JsWhitespace == {" ", "\t", "\n", "\r", "\f"}

LowerOf == [c \in UpperSet |->
              LET k == CHOOSE k \in 1..Len(UpperAlpha) : Ch(UpperAlpha, k) = c
              IN  Ch(LowerAlpha, k)]
UpperOf == [c \in LowerSet |->
              LET k == CHOOSE k \in 1..Len(LowerAlpha) : Ch(LowerAlpha, k) = c
              IN  Ch(UpperAlpha, k)]
ToLowerCh(c) == IF c \in UpperSet THEN LowerOf[c] ELSE c
ToUpperCh(c) == IF c \in LowerSet THEN UpperOf[c] ELSE c

Min(a, b) == IF a <= b THEN a ELSE b
Abs(a) == IF a < 0 THEN 0 - a ELSE a
MinOf(S) == CHOOSE k \in S : \A j \in S : k <= j
MaxOf(S) == CHOOSE k \in S : \A j \in S : k >= j

\* String.prototype.toLowerCase, half by half
RECURSIVE toLowerCase(_)
toLowerCase(s) ==
    IF Len(s) = 0 THEN ""
    ELSE IF Len(s) = 1 THEN ToLowerCh(s)
    ELSE toLowerCase(SubSeq(s, 1, Len(s) \div 2))
         \o toLowerCase(SubSeq(s, Len(s) \div 2 + 1, Len(s)))

\* String.prototype.trim; kept: the indices of the characters that are not
\* white space
trimKept(s, kept) == IF kept = {} THEN "" ELSE SubSeq(s, MinOf(kept), MaxOf(kept))
trim(s) == trimKept(s, {k \in 1..Len(s) : Ch(s, k) \notin JsWhitespace})

\* String.prototype.includes / startsWith
startsWith(s, p) == Len(p) <= Len(s) /\ SubSeq(s, 1, Len(p)) = p
includes(s, p) == \E k \in 0..(Len(s) - Len(p)) : SubSeq(s, k + 1, k + Len(p)) = p

-----------------------------------------------------------------------------
(* Regular expressions.  The matcher reads the subject as the tuple of its *)
(* characters; a position i \in 0..Len(s) lies after the first i           *)
(* characters of s.  hi = -1 in a class stands for "no upper limit".       *)

\* the tuple of the characters of a string
Chars(str) == [k \in 1..Len(str) |-> Ch(str, k)]

Lit(str) == [t |-> "lit", s |-> Chars(str)]
Cls(chars, lo, hi) == [t |-> "cls", c |-> chars, neg |-> FALSE, lo |-> lo, hi |-> hi]
NotCls(chars, lo, hi) == [t |-> "cls", c |-> chars, neg |-> TRUE, lo |-> lo, hi |-> hi]
Seq_(rs) == [t |-> "seq", r |-> rs]
Alt(rs) == [t |-> "alt", r |-> rs]
Opt(r) == [t |-> "opt", r |-> r]
Star(r) == [t |-> "star", r |-> r]
WB == [t |-> "wb"]
BOL == [t |-> "bol"]
EOL == [t |-> "eol"]
AltLits(strs) == Alt([k \in 1..Len(strs) |-> Lit(strs[k])])

(* A case-insensitive regex (flag i) is run on the lower-cased subject: its  *)
(* literals are written in lower case, as they are in the source, and a    *)
(* class holds a character when it holds it in either case.                *)
InCls(re, c, ci) ==
    LET hit == c \in re.c \/ (ci /\ ToUpperCh(c) \in re.c)
    IN  IF re.neg THEN ~hit ELSE hit

IsWordAt(s, k) == k >= 1 /\ k <= Len(s) /\ s[k] \in WordSet

\* the number of characters of the class that follow position i, at most limit
RunUpTo(stop, i, last) == IF stop = {} THEN last - i ELSE MinOf(stop) - i - 1
RunWithin(re, s, i, ci, last) ==
    RunUpTo({k \in (i + 1)..last : ~InCls(re, s[k], ci)}, i, last)
Run(re, s, i, ci, limit) == RunWithin(re, s, i, ci, Min(Len(s), i + limit))

\* the ends of a greedy class repetition that can take run characters
ClsEnds(run, lo, i) ==
    IF run < lo THEN <<>> ELSE [k \in 1..(run - lo + 1) |-> i + run + 1 - k]

\* a sequence without the later copies of its elements
RECURSIVE Dedup(_, _)
Dedup(q, seen) ==
    IF q = <<>> THEN <<>>
    ELSE IF Head(q) \in seen THEN Dedup(Tail(q), seen)
    ELSE <<Head(q)>> \o Dedup(Tail(q), seen \cup {Head(q)})

(* Ends(re, s, i, ci): the positions where a match of re that starts at i  *)
(* can end, in the order in which a backtracking engine tries them.  What  *)
(* follows a sub-expression depends on the end position only, so a later   *)
(* copy of a position is never the one the engine takes.                   *)
RECURSIVE Ends(_, _, _, _)
RECURSIVE SeqEnds(_, _, _, _, _)
RECURSIVE AltEnds(_, _, _, _, _)
RECURSIVE EachEnds(_, _, _, _)
RECURSIVE StarEach(_, _, _, _, _)

Ends(re, s, i, ci) ==
    CASE re.t = "lit" ->
           IF i + Len(re.s) <= Len(s) /\ \A k \in 1..Len(re.s) : s[i + k] = re.s[k]
           THEN <<i + Len(re.s)>> ELSE <<>>
      [] re.t = "cls" ->
           ClsEnds(Run(re, s, i, ci, IF re.hi = -1 THEN Len(s) ELSE re.hi), re.lo, i)
      [] re.t = "wb" ->
           IF IsWordAt(s, i) # IsWordAt(s, i + 1) THEN <<i>> ELSE <<>>
      [] re.t = "bol" -> IF i = 0 THEN <<i>> ELSE <<>>
      [] re.t = "eol" -> IF i = Len(s) THEN <<i>> ELSE <<>>
      [] re.t = "seq" -> SeqEnds(re.r, 1, s, <<i>>, ci)
      [] re.t = "alt" -> Dedup(AltEnds(re.r, 1, s, i, ci), {})
      [] re.t = "opt" -> Dedup(Ends(re.r, s, i, ci) \o <<i>>, {})
      [] re.t = "star" ->
           Dedup(StarEach(re, s, Ends(re.r, s, i, ci), i, ci) \o <<i>>, {})

\* the ends of rs[k..] started at each position of froms, in order
SeqEnds(rs, k, s, froms, ci) ==
    IF k > Len(rs) \/ froms = <<>> THEN froms
    ELSE IF Len(froms) = 1 THEN SeqEnds(rs, k + 1, s, Ends(rs[k], s, froms[1], ci), ci)
    ELSE SeqEnds(rs, k + 1, s, Dedup(EachEnds(rs[k], s, froms, ci), {}), ci)

EachEnds(re, s, froms, ci) ==
    IF froms = <<>> THEN <<>>
    ELSE Ends(re, s, Head(froms), ci) \o EachEnds(re, s, Tail(froms), ci)

AltEnds(rs, k, s, i, ci) ==
    IF k > Len(rs) THEN <<>>
    ELSE Ends(rs[k], s, i, ci) \o AltEnds(rs, k + 1, s, i, ci)

\* one more round of a greedy star from each end e of the round before
\* (an empty round, e = i, is not repeated)
StarEach(re, s, ends, i, ci) ==
    IF ends = <<>> THEN <<>>
    ELSE (IF Head(ends) = i THEN <<>> ELSE Ends(re, s, Head(ends), ci))
         \o StarEach(re, s, Tail(ends), i, ci)

\* what the matcher reads of the string str
Subject(str, ci) ==
    IF ci THEN [k \in 1..Len(str) |-> ToLowerCh(Ch(str, k))] ELSE Chars(str)

\* a regex that begins with ^ matches at position 0 or nowhere
Anchored(re) == re.t = "seq" /\ re.r[1].t = "bol"

\* a regex that begins with \b matches at word boundaries only
CanStartAt(re, s, i) ==
    (re.t = "seq" /\ re.r[1].t = "wb") => (IsWordAt(s, i) # IsWordAt(s, i + 1))

\* the first position >= from where a match starts, -1 when there is none
MatchesAt(re, s, i, ci) == CanStartAt(re, s, i) /\ Ends(re, s, i, ci) # <<>>
MinOrNone(starts) == IF starts = {} THEN -1 ELSE MinOf(starts)
FindFrom(re, s, from, ci) ==
    MinOrNone({i \in from..(IF Anchored(re) THEN 0 ELSE Len(s)) : MatchesAt(re, s, i, ci)})

\* String.prototype.match of a regex with the g flag: the matches from left
\* to right, each search resumed where the match before it ended
RECURSIVE MatchAllFrom(_, _, _, _)
MatchAllAt(re, s, i, e, ci) ==
    <<[from |-> i, to |-> e]>> \o MatchAllFrom(re, s, IF e = i THEN e + 1 ELSE e, ci)
MatchAllNext(re, s, i, ci) ==
    IF i = -1 THEN <<>> ELSE MatchAllAt(re, s, i, Ends(re, s, i, ci)[1], ci)
MatchAllFrom(re, s, from, ci) == MatchAllNext(re, s, FindFrom(re, s, from, ci), ci)

\* RegExp.prototype.test, String.prototype.match of a regex without the g flag
MatchesIn(re, s, ci) ==
    \E i \in 0..(IF Anchored(re) THEN 0 ELSE Len(s)) : MatchesAt(re, s, i, ci)
Test(re, str, ci) == MatchesIn(re, Subject(str, ci), ci)

Matched(str, ms) == [k \in 1..Len(ms) |-> SubSeq(str, ms[k].from + 1, ms[k].to)]
MatchAll(re, str, ci) == Matched(str, MatchAllFrom(re, Subject(str, ci), 0, ci))

-----------------------------------------------------------------------------
(* Line Classifier: the callback of lines.map in fixTextOrdering.          *)

\* /^(title|subject|to:|from:|date:|re:|cc:|bcc:)/i
HeaderKeywordRe ==
    Seq_(<<BOL, AltLits(<<"title", "subject", "to:", "from:", "date:", "re:",
                          "cc:", "bcc:">>)>>)
\* /^[A-Z][A-Z\s]{3,}$/
TitleRe ==
    Seq_(<<BOL, Cls(UpperSet, 1, 1), Cls(UpperSet \cup JsWhitespace, 3, -1), EOL>>)
\* /^(report|document|memo|letter|email|fax)/i
DocumentTypeRe ==
    Seq_(<<BOL, AltLits(<<"report", "document", "memo", "letter", "email", "fax">>)>>)
\* /\b(page|p\.|pg\.)\s*\d+/i
PageNumberRe ==
    Seq_(<<WB, AltLits(<<"page", "p.", "pg.">>), Cls(JsWhitespace, 0, -1),
           Cls(DigitSet, 1, -1)>>)
\* /\b\d{1,2}\/\d{1,2}\/\d{4}\b/
DateRe ==
    Seq_(<<WB, Cls(DigitSet, 1, 2), Lit("/"), Cls(DigitSet, 1, 2), Lit("/"),
           Cls(DigitSet, 4, 4), WB>>)
\* /\b(©|copyright|all rights reserved)/i
CopyrightRe == Seq_(<<WB, AltLits(<<"©", "copyright", "all rights reserved">>)>>)
\* /\b(confidential|private|draft|internal)/i
StatusRe ==
    Seq_(<<WB, AltLits(<<"confidential", "private", "draft", "internal">>)>>)
\* /^[0-9]+\.\s/
NumberedListRe ==
    Seq_(<<BOL, Cls(DigitSet, 1, -1), Lit("."), Cls(JsWhitespace, 1, 1)>>)
\* /^[a-z]\)\s/
LetteredListRe ==
    Seq_(<<BOL, Cls(LowerSet, 1, 1), Lit(")"), Cls(JsWhitespace, 1, 1)>>)
\* /^[-*•]\s/   (U+2022 is no character of a model string)
BulletListRe == Seq_(<<BOL, Cls({"-", "*"}, 1, 1), Cls(JsWhitespace, 1, 1)>>)
\* /^(therefore|thus|consequently|as a result)/i
FlowRe ==
    Seq_(<<BOL, AltLits(<<"therefore", "thus", "consequently", "as a result">>)>>)
\* /^(in conclusion|summary|finally)/i
ConclusionRe == Seq_(<<BOL, AltLits(<<"in conclusion", "summary", "finally">>)>>)

\* /^(oxford test|cefr level|overall score|test taker|speaking|listening|reading|writing|modules|certificate)/i
SectionHeaderRe ==
    Seq_(<<BOL, AltLits(<<"oxford test", "cefr level", "overall score", "test taker",
                          "speaking", "listening", "reading", "writing", "modules",
                          "certificate">>)>>)
\* /^(managing director|deputy director|oxford university press|university of oxford)/i
StandaloneFooterRe ==
    Seq_(<<BOL, AltLits(<<"managing director", "deputy director",
                          "oxford university press", "university of oxford">>)>>)
\* /^(test results|overall results|cefr scale|score guide|results verification)/i
OxfordPatternRe ==
    Seq_(<<BOL, AltLits(<<"test results", "overall results", "cefr scale",
                          "score guide", "results verification">>)>>)
\* /^[A-Z][A-Z\s]{5,}$/
CapsHeaderRe ==
    Seq_(<<BOL, Cls(UpperSet, 1, 1), Cls(UpperSet \cup JsWhitespace, 5, -1), EOL>>)
\* /^(cefr level|overall score|test taker name|certificate reference number)/i
SectionBreakRe ==
    Seq_(<<BOL, AltLits(<<"cefr level", "overall score", "test taker name",
                          "certificate reference number">>)>>)
\* /overall scoreoverall cefr level/i, /date of birthtest taker number/i,
\* /certificate reference number/i
MergedTextRe ==
    AltLits(<<"overall scoreoverall cefr level", "date of birthtest taker number",
              "certificate reference number">>)

\* the header if / else-if chain (lines 184-196), applied to the defaults
HeaderRules(t, a) ==
    IF Test(HeaderKeywordRe, t, TRUE)
    THEN [a EXCEPT !.lineType = "header", !.priority = 1, !.isHeader = TRUE]
    ELSE IF Test(TitleRe, t, FALSE)
    THEN [a EXCEPT !.lineType = "title", !.priority = 1, !.isHeader = TRUE]
    ELSE IF Test(DocumentTypeRe, t, TRUE)
    THEN [a EXCEPT !.lineType = "document_type", !.priority = 2, !.isHeader = TRUE]
    ELSE a

\* the footer chain (lines 199-215), applied to what the header chain left
FooterRules(t, a) ==
    IF Test(PageNumberRe, t, TRUE)
    THEN [a EXCEPT !.lineType = "page_number", !.priority = 100, !.isFooter = TRUE]
    ELSE IF Test(DateRe, t, FALSE)
    THEN [a EXCEPT !.lineType = "date", !.priority = 90, !.isFooter = TRUE]
    ELSE IF Test(CopyrightRe, t, TRUE)
    THEN [a EXCEPT !.lineType = "copyright", !.priority = 95, !.isFooter = TRUE]
    ELSE IF Test(StatusRe, t, TRUE)
    THEN [a EXCEPT !.lineType = "status", !.priority = 85, !.isFooter = TRUE]
    ELSE a

\* the list chain (lines 218-227)
ListRules(t, a) ==
    IF Test(NumberedListRe, t, FALSE)
    THEN [a EXCEPT !.lineType = "numbered_list", !.priority = 50]
    ELSE IF Test(LetteredListRe, t, FALSE)
    THEN [a EXCEPT !.lineType = "lettered_list", !.priority = 50]
    ELSE IF Test(BulletListRe, t, FALSE)
    THEN [a EXCEPT !.lineType = "bullet_list", !.priority = 50]
    ELSE a

\* the flow chain (lines 230-236)
FlowRules(t, a) ==
    IF Test(FlowRe, t, TRUE)
    THEN [a EXCEPT !.lineType = "conclusion", !.priority = 80]
    ELSE IF Test(ConclusionRe, t, TRUE)
    THEN [a EXCEPT !.lineType = "conclusion", !.priority = 80]
    ELSE a

\* lines 175-182: the record a line starts with
lineDefaults(l, trimmedLine, index) ==
    [originalIndex |-> index, text |-> trimmedLine, lineType |-> "content",
     priority |-> 0, isHeader |-> FALSE, isFooter |-> FALSE, originalLine |-> l]

\* the four chains, one after the other on the same lineType and priority
classify(t, start) ==
    FlowRules(t, ListRules(t, FooterRules(t, HeaderRules(t, start))))

analyzeTrimmed(l, trimmedLine, index) ==
    classify(trimmedLine, lineDefaults(l, trimmedLine, index))

\* analyzeLine with a default the enumeration does not hold
analyzeLineUnknownDefault(l, index) ==
    classify(trim(l), [lineDefaults(l, trim(l), index) EXCEPT
                          !.lineType = "unknown", !.priority = -1])

\* analyzeLine with the header chain run after the footer chain
analyzeLineHeaderAfterFooter(l, index) ==
    FlowRules(trim(l),
      ListRules(trim(l),
        HeaderRules(trim(l),
          FooterRules(trim(l), lineDefaults(l, trim(l), index)))))

\* lines.map((line, index) => ...)   (lines 174-247)
analyzeLine(l, index) == analyzeTrimmed(l, trim(l), index)

-----------------------------------------------------------------------------
(* fixTextOrdering: split, classify, segment, sort, flatten.               *)

\* String.prototype.split('\n')
RECURSIVE split(_)
splitAt(s, k) == <<SubSeq(s, 1, k - 1)>> \o split(SubSeq(s, k + 1, Len(s)))
splitAtFirst(s, nl) == IF nl = {} THEN <<s>> ELSE splitAt(s, MinOf(nl))
split(s) == splitAtFirst(s, {k \in 1..Len(s) : Ch(s, k) = "\n"})

\* Array.prototype.join('\n')
RECURSIVE join(_)
join(ls) ==
    IF ls = <<>> THEN ""
    ELSE IF Len(ls) = 1 THEN ls[1]
    ELSE ls[1] \o "\n" \o join(Tail(ls))

\* Array.prototype.filter(line => line.trim().length > 0)
RECURSIVE nonBlank(_)
nonBlank(ls) ==
    IF ls = <<>> THEN <<>>
    ELSE (IF Len(trim(Head(ls))) > 0 THEN <<Head(ls)>> ELSE <<>>) \o nonBlank(Tail(ls))

\* text.split('\n').filter(...)   (lines 168 and 343)
linesOf(text) == nonBlank(split(text))

\* lines.map(...) with the 0-based index of the source
analyzeLines(lines) == [k \in 1..Len(lines) |-> analyzeLine(lines[k], k - 1)]

\* shouldStartNewBlockInOrdering without the test of the content gap
shouldStartNewBlockNoGap(l, nextLine, currentBlock) ==
    \/ l.isHeader /\ l.lineType \in {"title", "document_type"}
    \/ l.isFooter
    \/ nextLine # <<>> /\ nextLine[1].isHeader /\ nextLine[1].lineType = "title"

\* nextLine is <<>> for null and <<l>> for the line l
shouldStartNewBlockInOrdering(l, nextLine, currentBlock) ==
    IF l.isHeader /\ l.lineType = "title" THEN TRUE
    ELSE IF l.isHeader /\ l.lineType = "document_type" THEN TRUE
    ELSE IF l.isFooter THEN TRUE
    ELSE IF /\ Len(currentBlock) > 0
            /\ Abs(Len(l.text) - Len(currentBlock[Len(currentBlock)].text)) > 60
         THEN TRUE
    ELSE IF /\ nextLine # <<>>
            /\ nextLine[1].isHeader
            /\ nextLine[1].lineType = "title"
         THEN TRUE
    ELSE FALSE

\* one round of the for loop of lines 253-266 on the pair (contentBlocks,
\* currentBlock), for the 1-based index i
segmentStep(al, i, st) ==
    LET l == al[i]
        nextLine == IF i < Len(al) THEN <<al[i + 1]>> ELSE <<>>
        shouldStartNewBlock == shouldStartNewBlockInOrdering(l, nextLine, st.currentBlock)
    IN  IF shouldStartNewBlock /\ Len(st.currentBlock) > 0
        THEN [contentBlocks |-> Append(st.contentBlocks, st.currentBlock),
              currentBlock |-> <<l>>]
        ELSE [contentBlocks |-> st.contentBlocks,
              currentBlock |-> Append(st.currentBlock, l)]

RECURSIVE segmentLoop(_, _)
segmentLoop(al, n) ==
    IF n = 0 THEN [contentBlocks |-> <<>>, currentBlock |-> <<>>]
    ELSE segmentStep(al, n, segmentLoop(al, n - 1))

\* segmentBlocks without the push of the last open block
segmentBlocksNoLast(al) == segmentLoop(al, Len(al)).contentBlocks

\* lines 250-271: the loop, then "add the last block"
withLastBlock(st) ==
    IF Len(st.currentBlock) > 0
    THEN Append(st.contentBlocks, st.currentBlock)
    ELSE st.contentBlocks
segmentBlocks(al) == withLastBlock(segmentLoop(al, Len(al)))

getBlockOrderInOrdering(block) ==
    LET firstLine == block[1]
    IN  IF firstLine.lineType = "title" THEN 1
        ELSE IF firstLine.lineType = "document_type" THEN 2
        ELSE IF firstLine.isHeader THEN 10
        ELSE IF ~firstLine.isHeader /\ ~firstLine.isFooter THEN 50
        ELSE IF firstLine.isFooter THEN 100
        ELSE 90

(* Array.prototype.sort with the comparator (a, b) => key(a) - key(b): a   *)
(* stable sort (ECMAScript 2019), here by insertion.  sortPerm(keys, n) is *)
(* the order of the indices 1..n; an index goes after every index sorted   *)
(* so far whose key is not greater.                                        *)
RECURSIVE insertIndex(_, _, _)
insertIndexUnstable(sorted, k, keys) ==
    LET before == {j \in 1..Len(sorted) : keys[sorted[j]] < keys[k]}
    IN  SubSeq(sorted, 1, Cardinality(before)) \o <<k>>
        \o SubSeq(sorted, Cardinality(before) + 1, Len(sorted))
insertIndex(sorted, k, keys) ==
    IF sorted = <<>> THEN <<k>>
    ELSE IF keys[Head(sorted)] - keys[k] <= 0
    THEN <<Head(sorted)>> \o insertIndex(Tail(sorted), k, keys)
    ELSE <<k>> \o sorted

RECURSIVE sortPerm(_, _)
sortPerm(keys, n) ==
    IF n = 0 THEN <<>> ELSE insertIndex(sortPerm(keys, n - 1), n, keys)

\* contentBlocks.sort(...) of lines 274-278
permute(blocks, perm) == [k \in 1..Len(blocks) |-> blocks[perm[k]]]
sortBlocksInOrdering(blocks) ==
    permute(blocks,
            sortPerm([k \in 1..Len(blocks) |-> getBlockOrderInOrdering(blocks[k])],
                     Len(blocks)))

\* Array.prototype.flat
RECURSIVE flat(_)
flat(blocks) == IF blocks = <<>> THEN <<>> ELSE Head(blocks) \o flat(Tail(blocks))

\* flattenOrdering with the trimmed text in place of the original line
textsOf(ls) == [k \in 1..Len(ls) |-> ls[k].text]
originalLinesOf(ls) == [k \in 1..Len(ls) |-> ls[k].originalLine]
flattenOrderingTrimmed(blocks) == join(textsOf(flat(blocks)))

\* flattenOrdering with the lines of the blocks from the last to the first
flattenOrderingReversed(blocks) ==
    join([k \in 1..Len(flat(blocks)) |-> flat(blocks)[Len(flat(blocks)) + 1 - k].originalLine])

\* lines 281-289: contentBlocks.flat().map(line => line.originalLine).join('\n')
flattenOrdering(blocks) == join(originalLinesOf(flat(blocks)))

\* the whole function (its argument is a string here, and nothing in it throws)
orderLines(text, lines) ==
    IF Len(lines) <= 3 THEN text
    ELSE flattenOrdering(sortBlocksInOrdering(segmentBlocks(analyzeLines(lines))))
fixTextOrdering(text) == orderLines(text, linesOf(text))

-----------------------------------------------------------------------------
(* reconstructMixedText: the fallback pass of extractText.                 *)

shouldStartNewContentBlock(currentLine, nextLine, currentBlock) ==
    IF Test(SectionHeaderRe, currentLine, TRUE) THEN TRUE
    ELSE IF Test(PageNumberRe, currentLine, TRUE) THEN TRUE
    ELSE IF Test(CopyrightRe, currentLine, TRUE) THEN TRUE
    ELSE IF /\ Len(currentBlock) > 0
            /\ Abs(Len(currentLine) - Len(currentBlock[Len(currentBlock)].text)) > 80
         THEN TRUE
    ELSE IF Test(SectionHeaderRe, nextLine, TRUE) THEN TRUE
    ELSE IF Test(StandaloneFooterRe, currentLine, TRUE) THEN TRUE
    ELSE IF Test(OxfordPatternRe, currentLine, TRUE) THEN TRUE
    ELSE IF Test(CapsHeaderRe, currentLine, FALSE) /\ Len(currentLine) < 50 THEN TRUE
    ELSE IF Test(SectionBreakRe, currentLine, TRUE) THEN TRUE
    ELSE IF Test(MergedTextRe, currentLine, TRUE) THEN TRUE
    ELSE FALSE

contentOrderOf(firstLine) ==
        IF includes(firstLine, "oxford test of english") /\ includes(firstLine, "certificate")
        THEN 1
        ELSE IF includes(firstLine, "oxford test of english") THEN 2
        ELSE IF \/ includes(firstLine, "test taker")
                \/ includes(firstLine, "name")
                \/ includes(firstLine, "date of birth") THEN 10
        ELSE IF includes(firstLine, "overall score") \/ includes(firstLine, "cefr level")
        THEN 20
        ELSE IF includes(firstLine, "speaking") THEN 30
        ELSE IF includes(firstLine, "listening") THEN 40
        ELSE IF includes(firstLine, "reading") THEN 50
        ELSE IF includes(firstLine, "writing") THEN 60
        ELSE IF includes(firstLine, "modules") \/ includes(firstLine, "score") THEN 70
        ELSE IF includes(firstLine, "cefr") /\ includes(firstLine, "scale") THEN 80
        ELSE IF \/ includes(firstLine, "oxford university press")
                \/ includes(firstLine, "university of oxford") THEN 100
        ELSE IF includes(firstLine, "copyright") \/ includes(firstLine, "©") THEN 110
        ELSE 90
getContentBlockOrder(block) == contentOrderOf(toLowerCase(block[1].text))

\* one round of the for loop of lines 349-366, for the 1-based index i
reconstructLine(l, nextLine, item, st) ==
    IF shouldStartNewContentBlock(l, nextLine, st.currentBlock) /\ Len(st.currentBlock) > 0
    THEN [contentBlocks |-> Append(st.contentBlocks, st.currentBlock),
          currentBlock |-> <<item>>]
    ELSE [contentBlocks |-> st.contentBlocks,
          currentBlock |-> Append(st.currentBlock, item)]
reconstructItem(l, i, original) == [text |-> l, originalIndex |-> i - 1, line |-> original]
reconstructTrimmed(lines, l, i, st) ==
    reconstructLine(l, IF i < Len(lines) THEN trim(lines[i + 1]) ELSE "",
                    reconstructItem(l, i, lines[i]), st)
reconstructStep(lines, i, st) == reconstructTrimmed(lines, trim(lines[i]), i, st)

RECURSIVE reconstructLoop(_, _)
reconstructLoop(lines, n) ==
    IF n = 0 THEN [contentBlocks |-> <<>>, currentBlock |-> <<>>]
    ELSE reconstructStep(lines, n, reconstructLoop(lines, n - 1))

\* lines 346-371: the loop, then "add the last block"
reconstructBlocks(lines) == withLastBlock(reconstructLoop(lines, Len(lines)))

\* contentBlocks.sort(...) of lines 374-378
sortContentBlocks(blocks) ==
    permute(blocks,
            sortPerm([k \in 1..Len(blocks) |-> getContentBlockOrder(blocks[k])],
                     Len(blocks)))

\* lines 381-383: contentBlocks.flat().map(item => item.line).join('\n')
linesOfItems(reconstructedLines) ==
    [k \in 1..Len(reconstructedLines) |-> reconstructedLines[k].line]

reconstructMixedText(text) ==
    join(linesOfItems(flat(sortContentBlocks(reconstructBlocks(linesOf(text))))))

-----------------------------------------------------------------------------
(* What the variables of a part of the program hold while another part is  *)
(* the one that runs.                                                      *)

NoOrderingCall ==
    /\ cleanedText = ""
    /\ analyzedLines = <<>>
    /\ contentBlocks = <<>>
    /\ orderedText = ""
NoClassifyCall ==
    /\ line = ""
    /\ analyzed = <<>>
NoLinkCall ==
    /\ inputText = ""
    /\ extracted = <<>>
    /\ givenLinks = <<>>
    /\ clickableText = ""
    /\ aLink = ""
    /\ category = ""
NoTwiceCall ==
    /\ givenText = ""
    /\ fixedOnce = ""
    /\ fixedTwice = ""
NoFileCall ==
    /\ filePaths = <<>>
    /\ calls = <<>>
    /\ results = <<>>
    /\ batch = "none"
    /\ disk = {}
NoWorkerCall ==
    /\ _worker = <<>>
    /\ _workerPromise = <<>>
    /\ created = <<>>
    /\ getting = <<>>
NoWaitCall == waiting = <<>>
NoLaterCall == NoTwiceCall /\ NoFileCall /\ NoWorkerCall /\ NoWaitCall

-----------------------------------------------------------------------------
(* The ordering stage of extractText (lines 79-85), one text at a time.    *)

MaxLines == 4

RECURSIVE repeat(_, _)
repeat(s, n) == IF n = 0 THEN "" ELSE s \o repeat(s, n - 1)

\* a line more than 80 characters longer than every other line of the pool
LongLine == repeat("lorem", 18)

LinePool ==
    {"REPORT TITLE", "Body line one.", "  Page 3", "Speaking 5", "", LongLine}

InitOrdering ==
    /\ pc = "start"
    /\ \E n \in 1..MaxLines : \E ls \in [1..n -> LinePool] : cleanedText = join(ls)
    /\ analyzedLines = <<>>
    /\ contentBlocks = <<>>
    /\ orderedText = ""
    /\ NoClassifyCall
    /\ NoLinkCall
    /\ NoLaterCall

\* fixTextOrdering, line 171: three lines or fewer, the text is returned as it is
ReturnShortText ==
    /\ pc = "start"
    /\ Len(linesOf(cleanedText)) <= 3
    /\ orderedText' = cleanedText
    /\ pc' = "ordered"
    /\ UNCHANGED <<cleanedText, analyzedLines, contentBlocks, classifyVars, linkVars, twiceVars, fileVars,
                   workerVars, waitVars>>

\* fixTextOrdering, lines 168-247
AnalyzeLines ==
    /\ pc = "start"
    /\ Len(linesOf(cleanedText)) > 3
    /\ analyzedLines' = analyzeLines(linesOf(cleanedText))
    /\ pc' = "analyzed"
    /\ UNCHANGED <<cleanedText, contentBlocks, orderedText, classifyVars, linkVars, twiceVars, fileVars,
                   workerVars, waitVars>>

\* fixTextOrdering, lines 250-271
SegmentBlocks ==
    /\ pc = "analyzed"
    /\ contentBlocks' = segmentBlocks(analyzedLines)
    /\ pc' = "segmented"
    /\ UNCHANGED <<cleanedText, analyzedLines, orderedText, classifyVars, linkVars, twiceVars, fileVars,
                   workerVars, waitVars>>

\* fixTextOrdering, lines 274-278: the sort is in place
SortBlocks ==
    /\ pc = "segmented"
    /\ contentBlocks' = sortBlocksInOrdering(contentBlocks)
    /\ pc' = "sorted"
    /\ UNCHANGED <<cleanedText, analyzedLines, orderedText, classifyVars, linkVars, twiceVars, fileVars,
                   workerVars, waitVars>>

\* fixTextOrdering, lines 281-289
FlattenBlocks ==
    /\ pc = "sorted"
    /\ orderedText' = flattenOrdering(contentBlocks)
    /\ pc' = "ordered"
    /\ UNCHANGED <<cleanedText, analyzedLines, contentBlocks, classifyVars, linkVars, twiceVars, fileVars,
                   workerVars, waitVars>>

\* the fallback pass without the test of line 83
FallbackAlways ==
    /\ pc = "ordered"
    /\ orderedText' = reconstructMixedText(cleanedText)
    /\ pc' = "done"
    /\ UNCHANGED <<cleanedText, analyzedLines, contentBlocks, classifyVars, linkVars,
                   twiceVars, fileVars, workerVars, waitVars>>

\* extractText, lines 83-85: the fallback pass
Fallback ==
    /\ pc = "ordered"
    /\ orderedText = cleanedText
    /\ orderedText' = reconstructMixedText(cleanedText)
    /\ pc' = "done"
    /\ UNCHANGED <<cleanedText, analyzedLines, contentBlocks, classifyVars, linkVars, twiceVars, fileVars,
                   workerVars, waitVars>>

\* extractText, line 83: the test fails, orderedText stays
KeepOrdering ==
    /\ pc = "ordered"
    /\ orderedText # cleanedText
    /\ pc' = "done"
    /\ UNCHANGED <<orderVars, classifyVars, linkVars, twiceVars, fileVars,
                   workerVars, waitVars>>

NextOrdering ==
    \/ ReturnShortText
    \/ AnalyzeLines
    \/ SegmentBlocks
    \/ SortBlocks
    \/ FlattenBlocks
    \/ Fallback
    \/ KeepOrdering

SpecOrdering == InitOrdering /\ [][NextOrdering]_vars

-----------------------------------------------------------------------------
(* The line classifier on one line, built from fragments.                  *)

MaxFragments == 2

ClassifyFragments ==
    {"Date: ", "12/01/2024", "CONFIDENTIAL", " REPORT", "Page 3", "1. ", "a) ",
     "- ", "thus ", "THUS ", "finally ", "body", "Memo", "©", "copyright", " "}

RECURSIVE concat(_)
concat(fs) == IF fs = <<>> THEN "" ELSE Head(fs) \o concat(Tail(fs))

InitClassify ==
    /\ pc = "classify"
    /\ \E n \in 1..MaxFragments : \E fs \in [1..n -> ClassifyFragments] :
           line = concat(fs)
    /\ analyzed = <<>>
    /\ NoOrderingCall
    /\ NoLinkCall
    /\ NoLaterCall

\* the callback of lines.map (lines 174-247) on one line
ClassifyLine ==
    /\ pc = "classify"
    /\ analyzed' = analyzeLine(line, 0)
    /\ pc' = "classified"
    /\ UNCHANGED <<line, orderVars, linkVars, twiceVars, fileVars, workerVars, waitVars>>

NextClassify == ClassifyLine

SpecClassify == InitClassify /\ [][NextClassify]_vars

-----------------------------------------------------------------------------
(* Link Extractor: extractLinks and isFalsePositive.                       *)

\* [^\s<>"{}|\\^`\[\]]   (the backtick is no character of a model string)
UrlExcluded == JsWhitespace \cup {"<", ">", "\"", "{", "}", "|", "\\", "^", "[", "]"}
\* [a-zA-Z0-9\-_\/]
PathChars == AlnumSet \cup {"-", "_", "/"}

\* /\bhttps?:\/\/[^\s<>"{}|\\^`\[\]]{8,}\b/gi
HttpUrlRe ==
    Seq_(<<WB, Lit("http"), Opt(Lit("s")), Lit("://"), NotCls(UrlExcluded, 8, -1), WB>>)
\* /\b[a-zA-Z0-9._%+-]+@[a-zA-Z0-9.-]+\.[a-zA-Z]{2,}\b/gi
EmailRe ==
    Seq_(<<WB, Cls(AlnumSet \cup {".", "_", "%", "+", "-"}, 1, -1), Lit("@"),
           Cls(AlnumSet \cup {".", "-"}, 1, -1), Lit("."), Cls(AlphaSet, 2, -1), WB>>)
\* [a-zA-Z0-9](?:[a-zA-Z0-9\-]{0,61}[a-zA-Z0-9])?
DomainLabel ==
    Seq_(<<Cls(AlnumSet, 1, 1),
           Opt(Seq_(<<Cls(AlnumSet \cup {"-"}, 0, 61), Cls(AlnumSet, 1, 1)>>))>>)
\* label(?:\.label)*\.[a-zA-Z]{2,}(?:\/[a-zA-Z0-9\-_\/]+)?
DomainWithPath ==
    <<DomainLabel, Star(Seq_(<<Lit("."), DomainLabel>>)), Lit("."), Cls(AlphaSet, 2, -1),
      Opt(Seq_(<<Lit("/"), Cls(PathChars, 1, -1)>>))>>
\* /\b(?:www\.)?label(?:\.label)*\.[a-zA-Z]{2,}(?:\/[a-zA-Z0-9\-_\/]+)?\b/gi
DomainRe == Seq_(<<WB, Opt(Lit("www."))>> \o DomainWithPath \o <<WB>>)
\* /\b\/(?:[a-zA-Z0-9\-_\/]+\.(?:html?|php|asp|jsp|js|css|png|jpg|gif|svg|pdf))\b/gi
RelativePathRe ==
    Seq_(<<WB, Lit("/"), Cls(PathChars, 1, -1), Lit("."),
           Alt(<<Seq_(<<Lit("htm"), Opt(Lit("l"))>>), Lit("php"), Lit("asp"), Lit("jsp"),
                 Lit("js"), Lit("css"), Lit("png"), Lit("jpg"), Lit("gif"), Lit("svg"),
                 Lit("pdf")>>),
           WB>>)

linkPatterns == <<HttpUrlRe, EmailRe, DomainRe, RelativePathRe>>

\* /^[a-z]+\.(?:com|org|net)$/i
SingleWordDomainRe ==
    Seq_(<<BOL, Cls(LowerSet, 1, -1), Lit("."), AltLits(<<"com", "org", "net">>), EOL>>)
\* /^[a-z]+\.[a-z]+$/i
ShortDomainRe ==
    Seq_(<<BOL, Cls(LowerSet, 1, -1), Lit("."), Cls(LowerSet, 1, -1), EOL>>)
\* /^[0-9]+\.[0-9]+\.[0-9]+\.[0-9]+$/
IpAddressRe ==
    Seq_(<<BOL, Cls(DigitSet, 1, -1), Lit("."), Cls(DigitSet, 1, -1), Lit("."),
           Cls(DigitSet, 1, -1), Lit("."), Cls(DigitSet, 1, -1), EOL>>)

\* isFalsePositive with nothing rejected
isFalsePositiveNever(link) == FALSE

\* falsePositives.some(pattern => pattern.test(link))
isFalsePositive(link) ==
    \/ Test(SingleWordDomainRe, link, TRUE)
    \/ Test(ShortDomainRe, link, TRUE)
    \/ Test(IpAddressRe, link, FALSE)

\* match.replace(/[.,;!?]+$/, ''): kept holds the indices of the other characters
TrailingPunctuation == {".", ",", ";", "!", "?"}
withoutTrailing(match, kept) == IF kept = {} THEN "" ELSE SubSeq(match, 1, MaxOf(kept))
stripTrailingPunctuation(match) ==
    withoutTrailing(match, {k \in 1..Len(match) : Ch(match, k) \notin TrailingPunctuation})

\* Set.prototype.add with the membership test left out
addToSetAlways(links, cleanLink) == Append(links, cleanLink)

\* Set.prototype.add on a Set held as the sequence of its elements in
\* insertion order
addToSet(links, cleanLink) ==
    IF \E k \in 1..Len(links) : links[k] = cleanLink THEN links
    ELSE Append(links, cleanLink)

\* lines 741-747: the length test and the false positive filter
addCleanLink(links, cleanLink) ==
    IF Len(cleanLink) >= 8 /\ Len(cleanLink) <= 200
    THEN IF ~isFalsePositive(cleanLink) THEN addToSet(links, cleanLink) ELSE links
    ELSE links

\* matches.forEach(...), from the k-th match on
RECURSIVE addMatches(_, _, _)
addMatches(links, matches, k) ==
    IF k > Len(matches) THEN links
    ELSE addMatches(addCleanLink(links, trim(stripTrailingPunctuation(matches[k]))),
                    matches, k + 1)

\* linkPatterns.forEach(...), from the p-th pattern on; l.match(pattern) of a
\* regex with the g flag is every match, or null
RECURSIVE addPatterns(_, _, _)
addPatterns(links, l, p) ==
    IF p > Len(linkPatterns) THEN links
    ELSE addPatterns(addMatches(links, MatchAll(linkPatterns[p], l, TRUE), 1), l, p + 1)

\* addPatterns with the first pattern alone
addLineHttpOnly(links, l) ==
    IF Len(l) < 200 THEN addMatches(links, MatchAll(linkPatterns[1], l, TRUE), 1)
    ELSE links

\* the callback of lines.forEach (lines 733-751)
addLine(links, l) == IF Len(l) < 200 THEN addPatterns(links, l, 1) ELSE links

RECURSIVE addLines(_, _, _)
addLines(links, lines, k) ==
    IF k > Len(lines) THEN links ELSE addLines(addLine(links, lines[k]), lines, k + 1)

\* text.split('\n').map(line => line.trim()).filter(line => line.length > 0)
RECURSIVE nonEmpty(_)
nonEmpty(ls) ==
    IF ls = <<>> THEN <<>>
    ELSE (IF Len(Head(ls)) > 0 THEN <<Head(ls)>> ELSE <<>>) \o nonEmpty(Tail(ls))
trimAll(ls) == [k \in 1..Len(ls) |-> trim(ls[k])]
trimmedLinesOf(text) == nonEmpty(trimAll(split(text)))

\* the whole function, for a string; Array.from(links) is the Set in
\* insertion order
extractLinks(text) == addLines(<<>>, trimmedLinesOf(text), 1)

-----------------------------------------------------------------------------
(* Link Classifier: categorizeLinkType.                                    *)

\* /^label(?:\.label)*\.[a-zA-Z]{2,}(?:\/[a-zA-Z0-9\-_\/]+)?$/
BareDomainRe == Seq_(<<BOL>> \o DomainWithPath \o <<EOL>>)

\* categorizeLinkType with the test for 'http' before the test for '@'
categorizeLinkTypeHttpFirst(link) ==
    IF startsWith(link, "http") THEN "url"
    ELSE IF includes(link, "@") THEN "email"
    ELSE IF startsWith(link, "/") /\ ~startsWith(link, "//") THEN "file-path"
    ELSE IF startsWith(link, "./") \/ startsWith(link, "../") THEN "relative"
    ELSE IF Test(BareDomainRe, link, FALSE) THEN "url"
    ELSE "other"

categorizeLinkType(link) ==
    IF includes(link, "@") THEN "email"
    ELSE IF startsWith(link, "http") THEN "url"
    ELSE IF startsWith(link, "/") /\ ~startsWith(link, "//") THEN "file-path"
    ELSE IF startsWith(link, "./") \/ startsWith(link, "../") THEN "relative"
    ELSE IF Test(BareDomainRe, link, FALSE) THEN "url"
    ELSE "other"

-----------------------------------------------------------------------------
(* Clickable Renderer: makeLinksClickable.                                 *)

\* [...links].sort((a, b) => b.length - a.length): stable, longest first
sortLinksByLength(links) ==
    permute(links, sortPerm([k \in 1..Len(links) |-> 0 - Len(links[k])], Len(links)))

\* lines 923-941
hrefOf(link) ==
    IF includes(link, "@") THEN "mailto:" \o link
    ELSE IF startsWith(link, "http") THEN link
    ELSE IF startsWith(link, "/") /\ ~startsWith(link, "//") THEN "file://" \o link
    ELSE IF startsWith(link, "./") \/ startsWith(link, "../") THEN link
    ELSE IF Test(BareDomainRe, link, FALSE) THEN "https://" \o link
    ELSE link

\* line 943, displayText being the link
linkHtmlOf(link) ==
    "<a href=\"" \o hrefOf(link) \o "\" target=\"_blank\" rel=\"noopener noreferrer\">"
    \o link \o "</a>"

(* line 945: every regex metacharacter of the link is escaped, so the regex *)
(* is \b, the characters of the link as they are, \b.                       *)
wholeWordRe(link) == Seq_(<<WB, Lit(link), WB>>)

(* String.prototype.replace of a regex with the g flag: the text with every *)
(* match ms[k..] replaced; from is the position the copy has reached.  (No  *)
(* link of the model holds a $, which replace would read as a pattern.)     *)
RECURSIVE replaceMatches(_, _, _, _, _)
replaceMatches(text, ms, k, from, replacement) ==
    IF k > Len(ms) THEN SubSeq(text, from + 1, Len(text))
    ELSE SubSeq(text, from + 1, ms[k].from) \o replacement
         \o replaceMatches(text, ms, k + 1, ms[k].to, replacement)

\* one round of sortedLinks.forEach (lines 922-947)
replaceLink(text, link) ==
    replaceMatches(text, MatchAllFrom(wholeWordRe(link), Subject(text, FALSE), 0, FALSE),
                   1, 0, linkHtmlOf(link))

RECURSIVE replaceLinks(_, _, _)
replaceLinks(text, sortedLinks, k) ==
    IF k > Len(sortedLinks) THEN text
    ELSE replaceLinks(replaceLink(text, sortedLinks[k]), sortedLinks, k + 1)

\* the whole function, for an array of links
makeLinksClickable(text, links) == replaceLinks(text, sortLinksByLength(links), 1)

-----------------------------------------------------------------------------
(* extractLinks on one text.                                               *)

MaxLinkFragments == 2

\* a line of 200 characters and more is not searched
SkippedLine == repeat("skip ", 40) \o "https://example.com/page"

LinkTexts ==
    {"Visit example.com or test.org today",
     "Visit https://example.com/page or citizensadvice.org.uk/help",
     SkippedLine}

LinkFragments ==
    {"Visit ", "https://example.com/page ", "https://example.com/page\n",
     "citizensadvice.org.uk/help, ", "example.com ", "info@example.com. ",
     "example.com/docs/a.pdf\n", "www.site.org ", "test.org\n", "192.168.0.1 ",
     "HTTPS://EXAMPLE.COM/Page, ", "a-b.co.uk/x_y/ ", "http://a.b ", "see/a/b.html;"}

InitLinks ==
    /\ pc = "extract"
    /\ \/ inputText \in LinkTexts
       \/ \E n \in 1..MaxLinkFragments : \E fs \in [1..n -> LinkFragments] :
              inputText = concat(fs)
    /\ extracted = <<>>
    /\ givenLinks = <<>>
    /\ clickableText = ""
    /\ aLink = ""
    /\ category = ""
    /\ NoOrderingCall
    /\ NoClassifyCall
    /\ NoLaterCall

ExtractLinks ==
    /\ pc = "extract"
    /\ extracted' = extractLinks(inputText)
    /\ pc' = "extracted"
    /\ UNCHANGED <<inputText, givenLinks, clickableText, aLink, category, orderVars,
                   classifyVars, twiceVars, fileVars, workerVars, waitVars>>

NextLinks == ExtractLinks

SpecLinks == InitLinks /\ [][NextLinks]_vars

-----------------------------------------------------------------------------
(* categorizeLinkType on one link.                                         *)

MaxCategoryFragments == 3

CategoryFragments ==
    {"a@b.com", "https://x.io", "/a/b.pdf", "../c", "./", "/", "http", "x.io", "www",
     ".", "@", "-"}

InitCategorize ==
    /\ pc = "categorize"
    /\ \E n \in 1..MaxCategoryFragments : \E fs \in [1..n -> CategoryFragments] :
           aLink = concat(fs)
    /\ category = ""
    /\ inputText = ""
    /\ extracted = <<>>
    /\ givenLinks = <<>>
    /\ clickableText = ""
    /\ NoOrderingCall
    /\ NoClassifyCall
    /\ NoLaterCall

CategorizeLink ==
    /\ pc = "categorize"
    /\ category' = categorizeLinkType(aLink)
    /\ pc' = "categorized"
    /\ UNCHANGED <<aLink, inputText, extracted, givenLinks, clickableText, orderVars,
                   classifyVars, twiceVars, fileVars, workerVars, waitVars>>

NextCategorize == CategorizeLink

SpecCategorize == InitCategorize /\ [][NextCategorize]_vars

-----------------------------------------------------------------------------
(* makeLinksClickable on one text and one list of links.                   *)

MaxClickFragments == 2
MaxClickLinks == 2

ClickLinks ==
    {"https://example.com/page", "example.com/page", "info@example.com", "/a/b.pdf",
     "../c", "./x"}

ClickFragments == ClickLinks \cup {"see ", " here", "."}

InitClickable ==
    /\ pc = "render"
    /\ \E n \in 1..MaxClickFragments : \E fs \in [1..n -> ClickFragments] :
           inputText = concat(fs)
    /\ \E n \in 1..MaxClickLinks : givenLinks \in [1..n -> ClickLinks]
    /\ clickableText = ""
    /\ extracted = <<>>
    /\ aLink = ""
    /\ category = ""
    /\ NoOrderingCall
    /\ NoClassifyCall
    /\ NoLaterCall

RenderLinks ==
    /\ pc = "render"
    /\ clickableText' = makeLinksClickable(inputText, givenLinks)
    /\ pc' = "rendered"
    /\ UNCHANGED <<inputText, givenLinks, extracted, aLink, category, orderVars,
                   classifyVars, twiceVars, fileVars, workerVars, waitVars>>

NextClickable == RenderLinks

SpecClickable == InitClickable /\ [][NextClickable]_vars

-----------------------------------------------------------------------------
(* Claims on the ordering stage.                                           *)

LineCount(ls, x) == Cardinality({k \in 1..Len(ls) : ls[k] = x})
SameLineBag(a, b) ==
    /\ Len(a) = Len(b)
    /\ \A k \in 1..Len(a) : LineCount(a, a[k]) = LineCount(b, a[k])

\* C1: when the ordering stage (fixTextOrdering, then reconstructMixedText if
\* the fallback fires) has ended, the non-blank lines of orderedText are the
\* non-blank lines of cleanedText, each as many times: none dropped, none
\* duplicated.
Thm_C1_NoLineLost ==
    pc = "done" => SameLineBag(linesOf(orderedText), linesOf(cleanedText))

\* the stage has ended and has moved a line
Wit_C1_Reordered ==
    /\ pc = "done"
    /\ linesOf(orderedText) # linesOf(cleanedText)

\* C2: after the segmentation loop and before the sort, every block is
\* non-empty and the blocks in block order, put end to end, are the
\* classified lines in their input order.
Thm_C2_SegmentationExact ==
    pc = "segmented" =>
        /\ \A k \in 1..Len(contentBlocks) : Len(contentBlocks[k]) > 0
        /\ flat(contentBlocks) = analyzedLines

\* the loop has cut the lines into three blocks or more
Wit_C2_SeveralBlocks ==
    /\ pc = "segmented"
    /\ Len(contentBlocks) >= 3

PositionIn(blocks, b) == CHOOSE k \in 1..Len(blocks) : blocks[k] = b

StablySorted(before, after) ==
    /\ Len(after) = Len(before)
    /\ \A k \in 1..Len(before) : \E j \in 1..Len(after) : after[j] = before[k]
    /\ \A j \in 1..Len(after) : \E k \in 1..Len(before) : after[j] = before[k]
    /\ \A i, j \in 1..Len(after) :
           i < j =>
             /\ getBlockOrderInOrdering(after[i]) <= getBlockOrderInOrdering(after[j])
             /\ getBlockOrderInOrdering(after[i]) = getBlockOrderInOrdering(after[j])
                  => PositionIn(before, after[i]) < PositionIn(before, after[j])

\* C3: the sort step turns the blocks into the same blocks (so each with its
\* lines in the same order) in non-decreasing order of
\* getBlockOrderInOrdering, blocks of equal key in their order before it.
Thm_C3_StableSort ==
    [][(pc = "segmented" /\ pc' = "sorted") => StablySorted(contentBlocks, contentBlocks')]_vars

\* the sort has moved a block, and two blocks have the same key
Wit_C3_MovedWithTies ==
    /\ pc = "sorted"
    /\ \E k \in 1..(Len(contentBlocks) - 1) :
           contentBlocks[k][1].originalIndex > contentBlocks[k + 1][1].originalIndex
    /\ \E i, j \in 1..Len(contentBlocks) :
           /\ i < j
           /\ getBlockOrderInOrdering(contentBlocks[i])
                = getBlockOrderInOrdering(contentBlocks[j])

-----------------------------------------------------------------------------
(* Claims on the line classifier.                                          *)

LineTypes ==
    {"title", "document_type", "header", "page_number", "date", "copyright",
     "status", "numbered_list", "lettered_list", "bullet_list", "conclusion",
     "content"}

HeaderGroupType(t) ==
    IF Test(HeaderKeywordRe, t, TRUE) THEN "header"
    ELSE IF Test(TitleRe, t, FALSE) THEN "title"
    ELSE IF Test(DocumentTypeRe, t, TRUE) THEN "document_type"
    ELSE "none"
FooterGroupType(t) ==
    IF Test(PageNumberRe, t, TRUE) THEN "page_number"
    ELSE IF Test(DateRe, t, FALSE) THEN "date"
    ELSE IF Test(CopyrightRe, t, TRUE) THEN "copyright"
    ELSE IF Test(StatusRe, t, TRUE) THEN "status"
    ELSE "none"
ListGroupType(t) ==
    IF Test(NumberedListRe, t, FALSE) THEN "numbered_list"
    ELSE IF Test(LetteredListRe, t, FALSE) THEN "lettered_list"
    ELSE IF Test(BulletListRe, t, FALSE) THEN "bullet_list"
    ELSE "none"
FlowGroupType(t) ==
    IF Test(FlowRe, t, TRUE) \/ Test(ConclusionRe, t, TRUE) THEN "conclusion" ELSE "none"

\* what each of the four groups says of the trimmed line t
GroupTypes(t) ==
    <<HeaderGroupType(t), FooterGroupType(t), ListGroupType(t), FlowGroupType(t)>>
MatchingGroups(gt) == {g \in 1..4 : gt[g] # "none"}

RulePriority ==
    [ty \in LineTypes |->
        CASE ty \in {"header", "title"} -> 1
          [] ty = "document_type" -> 2
          [] ty = "page_number" -> 100
          [] ty = "date" -> 90
          [] ty = "copyright" -> 95
          [] ty = "status" -> 85
          [] ty \in {"numbered_list", "lettered_list", "bullet_list"} -> 50
          [] ty = "conclusion" -> 80
          [] ty = "content" -> 0]

\* the type of the first rule of the earliest / of the latest matching group
TypeOfGroup(gt, mg, g) == IF mg = {} THEN "content" ELSE gt[g]
EarliestGroupType(gt) ==
    TypeOfGroup(gt, MatchingGroups(gt), MinOf(MatchingGroups(gt) \cup {4}))
LatestGroupType(gt) ==
    TypeOfGroup(gt, MatchingGroups(gt), MaxOf(MatchingGroups(gt) \cup {1}))

DefaultsWhenUnmatched(a, gt) ==
    MatchingGroups(gt) = {} =>
        /\ a.lineType = "content"
        /\ a.priority = 0
        /\ ~a.isHeader
        /\ ~a.isFooter

\* C4: the classifier is total: lineType is one of the 12 values, priority
\* is a non-negative integer, and a line that matches no pattern is content
\* with priority 0 and neither flag.
Thm_C4_TotalClassification ==
    pc = "classified" =>
        /\ analyzed.lineType \in LineTypes
        /\ analyzed.priority \in Nat
        /\ DefaultsWhenUnmatched(analyzed, GroupTypes(trim(line)))

\* a line that is not blank and matches no pattern has been classified
Wit_C4_UnmatchedLine ==
    /\ pc = "classified"
    /\ trim(line) # ""
    /\ MatchingGroups(GroupTypes(trim(line))) = {}

TypeAndPriorityAre(a, ty) == a.lineType = ty /\ a.priority = RulePriority[ty]

\* C5 as claimed: lineType and priority are those of the earliest matching
\* rule, the groups taken in the order header, footer, list, conclusion.
Cex_C5_FirstMatchWins ==
    pc = "classified" =>
        TypeAndPriorityAre(analyzed, EarliestGroupType(GroupTypes(trim(line))))

LastGroupWins(a, gt) ==
    /\ TypeAndPriorityAre(a, LatestGroupType(gt))
    /\ a.isHeader = (gt[1] # "none")
    /\ a.isFooter = (gt[2] # "none")

\* C5 as amended: inside a group the first matching rule wins, and among the
\* groups the last one that matches (conclusion, else list, else footer, else
\* header) gives lineType and priority; isHeader and isFooter say whether
\* the header group and the footer group matched.
Thm_C5_LastGroupWins ==
    pc = "classified" => LastGroupWins(analyzed, GroupTypes(trim(line)))

HeaderAndFooter(gt) == gt[1] # "none" /\ gt[2] # "none"

\* a line that matches a header rule and a footer rule has been classified
Wit_C5_HeaderAndFooter ==
    /\ pc = "classified"
    /\ HeaderAndFooter(GroupTypes(trim(line)))

-----------------------------------------------------------------------------
(* Claims on the link extractor.                                           *)

\* the number of places where p occurs in s
occurrences(s, p) ==
    Cardinality({k \in 0..(Len(s) - Len(p)) : SubSeq(s, k + 1, k + Len(p)) = p})

\* C6: the list extractLinks returns holds no two equal strings.
Thm_C6_NoDuplicateLinks ==
    pc = "extracted" =>
        \A i, j \in 1..Len(extracted) : i < j => extracted[i] # extracted[j]

\* a returned link stands twice in the text
Wit_C6_LinkSeenTwice ==
    /\ pc = "extracted"
    /\ \E k \in 1..Len(extracted) : occurrences(inputText, extracted[k]) >= 2

LettersOnly(s) == Len(s) > 0 /\ \A k \in 1..Len(s) : Ch(s, k) \in AlphaSet
DigitsOnly(s) == Len(s) > 0 /\ \A k \in 1..Len(s) : Ch(s, k) \in DigitSet
DotsOf(s) == {k \in 1..Len(s) : Ch(s, k) = "."}

\* letters, a dot, letters: word.com, word.org, word.net and every ab.cd
TwoLabelDomain(s) ==
    \E d \in DotsOf(s) :
        LettersOnly(SubSeq(s, 1, d - 1)) /\ LettersOnly(SubSeq(s, d + 1, Len(s)))

\* four runs of digits with a dot between them
DottedQuad(s) ==
    \E a, b, c \in DotsOf(s) :
        /\ a < b /\ b < c
        /\ DigitsOnly(SubSeq(s, 1, a - 1))
        /\ DigitsOnly(SubSeq(s, a + 1, b - 1))
        /\ DigitsOnly(SubSeq(s, b + 1, c - 1))
        /\ DigitsOnly(SubSeq(s, c + 1, Len(s)))

PassesAcceptanceFilter(link) ==
    /\ Len(link) >= 8
    /\ Len(link) <= 200
    /\ Ch(link, Len(link)) \notin TrailingPunctuation
    /\ ~TwoLabelDomain(link)
    /\ ~DottedQuad(link)

SingleLabelText == "Visit example.com or test.org today"

\* C7: every string extractLinks returns has a length in [8, 200], does not
\* end in one of . , ; ! ? and has none of the three false positive shapes;
\* for "Visit example.com or test.org today" the list is empty.
Thm_C7_AcceptedLinks ==
    pc = "extracted" =>
        /\ \A k \in 1..Len(extracted) : PassesAcceptanceFilter(extracted[k])
        /\ inputText = SingleLabelText => extracted = <<>>

\* a text with a single-label domain has given links all the same
Wit_C7_SomeRejected ==
    /\ pc = "extracted"
    /\ includes(inputText, "test.org")
    /\ Len(extracted) > 0

TwoLinkText == "Visit https://example.com/page or citizensadvice.org.uk/help"

\* C8 as claimed: for TwoLinkText the list is exactly the two links.
Cex_C8_ExactlyTwoLinks ==
    (pc = "extracted" /\ inputText = TwoLinkText) =>
        /\ Len(extracted) = 2
        /\ {extracted[k] : k \in 1..Len(extracted)}
             = {"https://example.com/page", "citizensadvice.org.uk/help"}

\* C8 as amended: for TwoLinkText the list holds both links and, between
\* them, the bare-domain match example.com/page found inside the http URL:
\* three entries.
Thm_C8_BothLinksAndInnerMatch ==
    (pc = "extracted" /\ inputText = TwoLinkText) =>
        extracted = <<"https://example.com/page", "example.com/page",
                      "citizensadvice.org.uk/help">>

\* extractLinks has run on TwoLinkText
Wit_C8_TwoLinkText ==
    /\ pc = "extracted"
    /\ inputText = TwoLinkText
    /\ Len(extracted) > 0

-----------------------------------------------------------------------------
(* Claims on the link classifier.                                          *)

Categories == {"email", "url", "file-path", "relative", "other"}

\* the decision list of the specification, the bare-domain test second
ReferenceCategory(link) ==
    IF includes(link, "@") THEN "email"
    ELSE IF startsWith(link, "http") \/ Test(BareDomainRe, link, FALSE) THEN "url"
    ELSE IF startsWith(link, "/") /\ ~startsWith(link, "//") THEN "file-path"
    ELSE IF startsWith(link, "./") \/ startsWith(link, "../") THEN "relative"
    ELSE "other"

\* C9: categorizeLinkType returns one of the five categories, the one the
\* reference decision list gives (email, url by 'http' or by the bare-domain
\* pattern, file-path, relative, other), though the code tests the
\* bare-domain pattern last.
Thm_C9_DecisionList ==
    pc = "categorized" =>
        /\ category \in Categories
        /\ category = ReferenceCategory(aLink)
        /\ aLink = "a@b.com" => category = "email"
        /\ aLink = "https://x.io" => category = "url"
        /\ aLink = "/a/b.pdf" => category = "file-path"
        /\ aLink = "../c" => category = "relative"

\* a link without 'http' that the bare-domain pattern matches has been
\* categorized
Wit_C9_BareDomain ==
    /\ pc = "categorized"
    /\ ~startsWith(aLink, "http")
    /\ ~includes(aLink, "@")
    /\ Test(BareDomainRe, aLink, FALSE)

-----------------------------------------------------------------------------
(* Claims on the clickable renderer.                                       *)

OneAnchorFor(link, out) ==
    /\ occurrences(out, "<a ") = 1
    /\ occurrences(out, "</a>") = 1
    /\ includes(out, ">" \o link \o "</a>")

\* C10 as claimed: when the one link given occurs exactly once in the text
\* (whatever its category), the text returned holds exactly one anchor
\* element, and its label is the link.
Cex_C10_ExactlyOneAnchor ==
    (/\ pc = "rendered"
     /\ Len(givenLinks) = 1
     /\ occurrences(inputText, givenLinks[1]) = 1)
        => OneAnchorFor(givenLinks[1], clickableText)

-----------------------------------------------------------------------------
(* fixTextOrdering on the lines of a four-line page: a title, a body line, *)
(* a page number and a copyright line, in every order.                     *)

PageLines == {"REPORT TITLE", "Body line one.", "Page 3", "© 2024"}

distinctLines(ls) == \A j, k \in 1..Len(ls) : j # k => ls[j] # ls[k]

InitPage ==
    /\ pc = "start"
    /\ \E n \in 1..Cardinality(PageLines) : \E ls \in [1..n -> PageLines] :
            /\ distinctLines(ls)
            /\ cleanedText = join(ls)
    /\ analyzedLines = <<>>
    /\ contentBlocks = <<>>
    /\ orderedText = ""
    /\ NoClassifyCall
    /\ NoLinkCall
    /\ NoLaterCall

SpecPage == InitPage /\ [][NextOrdering]_vars

-----------------------------------------------------------------------------
(* Claims on the four-line page.                                           *)

lastOf(ls) == ls[Len(ls)]
secondLastOf(ls) == ls[Len(ls) - 1]
isPageOrder(ls) ==
    /\ ls[1] = "REPORT TITLE"
    /\ {secondLastOf(ls), lastOf(ls)} = {"Page 3", "© 2024"}

\* C11 as claimed: for every order of the four lines, the text fixTextOrdering
\* returns has the title line first and the page-number line and the
\* copyright line as its last two lines.
Cex_C11_TitleFirstFootersLast ==
    (pc = "ordered" /\ Len(linesOf(cleanedText)) = 4)
        => isPageOrder(linesOf(orderedText))

\* C12 as claimed: the lines in the order title, body, page number, copyright
\* are cut into three blocks or more, the title in a block of its own, the
\* body line in a block of its own, the two footer lines in one or two blocks.
Cex_C12_ThreeBlocks ==
    (pc = "segmented"
     /\ cleanedText = "REPORT TITLE\nBody line one.\nPage 3\n© 2024")
        => /\ Len(contentBlocks) >= 3
           /\ textsOf(contentBlocks[1]) = <<"REPORT TITLE">>
           /\ textsOf(contentBlocks[2]) = <<"Body line one.">>

-----------------------------------------------------------------------------
(* String.prototype.replace of a regex with the g flag and a replacement   *)
(* that names groups ($1, $2, ...).  A regex that has groups is written as *)
(* a sequence whose parts are its groups and what stands between them; a   *)
(* replacement is a tuple of literal texts and of parts of the match.      *)

Text_(str) == [lit |-> str]
Part(p) == [part |-> p]

\* the first of ends[j..] after which the parts rs[k+1..] match: where the
\* backtracking engine leaves part k
RECURSIVE firstFitting(_, _, _, _, _, _)
firstFitting(ends, j, rs, k, s, ci) ==
    IF SeqEnds(rs, k + 1, s, <<ends[j]>>, ci) # <<>> THEN ends[j]
    ELSE firstFitting(ends, j + 1, rs, k, s, ci)

\* the end of each of the parts rs[k..] in the match that starts part k at i
RECURSIVE PartEnds(_, _, _, _, _)
PartEndsFrom(rs, k, s, e, ci) == <<e>> \o PartEnds(rs, k + 1, s, e, ci)
PartEnds(rs, k, s, i, ci) ==
    IF k > Len(rs) THEN <<>>
    ELSE PartEndsFrom(rs, k, s, firstFitting(Ends(rs[k], s, i, ci), 1, rs, k, s, ci), ci)

partText(text, from, ends, p) ==
    SubSeq(text, (IF p = 1 THEN from ELSE ends[p - 1]) + 1, ends[p])

RECURSIVE expand(_, _, _, _, _)
expand(replacement, k, text, from, ends) ==
    IF k > Len(replacement) THEN ""
    ELSE (IF "lit" \in DOMAIN replacement[k] THEN replacement[k].lit
          ELSE partText(text, from, ends, replacement[k].part))
         \o expand(replacement, k + 1, text, from, ends)

RECURSIVE replaceEach(_, _, _, _, _, _, _)
replaceEach(text, s, re, ms, k, from, replacement) ==
    IF k > Len(ms) THEN SubSeq(text, from + 1, Len(text))
    ELSE SubSeq(text, from + 1, ms[k].from)
         \o expand(replacement, 1, text, ms[k].from,
                   IF re.t = "seq" THEN PartEnds(re.r, 1, s, ms[k].from, FALSE) ELSE <<>>)
         \o replaceEach(text, s, re, ms, k + 1, ms[k].to, replacement)

replaceIn(text, s, re, replacement) ==
    replaceEach(text, s, re, MatchAllFrom(re, s, 0, FALSE), 1, 0, replacement)
replace(text, re, replacement) == replaceIn(text, Chars(text), re, replacement)

-----------------------------------------------------------------------------
(* fixOxfordTestTextMerging.                                               *)

\* U+2013, the en dash of the score ranges, is no character of a model
\* string; U+00AF stands for it in the patterns and in the texts
EnDash == "¯"

Ws0 == Cls(JsWhitespace, 0, -1)
Ws1 == Cls(JsWhitespace, 1, -1)
\* the literals strs with \s+ between them
Spaced(strs) ==
    Seq_([k \in 1..(2 * Len(strs) - 1) |->
            IF k % 2 = 1 THEN Lit(strs[(k + 1) \div 2]) ELSE Ws1])
\* \d+–\d+
RangeRe == Seq_(<<Cls(DigitSet, 1, -1), Lit(EnDash), Cls(DigitSet, 1, -1)>>)
Range51 == "(51" \o EnDash \o "80)"
Range81 == "(81" \o EnDash \o "110)"
Range111 == "(111" \o EnDash \o "140)"

Fix(re, replacement) == [re |-> re, replacement |-> replacement]

specificFixes == <<
    Fix(Lit("OVERALL SCOREOVERALL CEFR LEVEL"), <<Text_("OVERALL SCORE\nOVERALL CEFR LEVEL")>>),
    Fix(Lit("DATE OF BIRTHTEST TAKER NUMBER"), <<Text_("DATE OF BIRTH\nTEST TAKER NUMBER")>>),
    Fix(Lit("CERTIFICATE REFERENCE NUMBER"), <<Text_("CERTIFICATE REFERENCE NUMBER")>>),
    \* /B\s+1\s*1\s*0\s*4/g
    Fix(Seq_(<<Lit("B"), Ws1, Lit("1"), Ws0, Lit("1"), Ws0, Lit("0"), Ws0, Lit("4")>>),
        <<Text_("B1 104")>>),
    \* /MODULESCOREA\s*2\s*\(51–80\)B\s*1\s*\(81–110\)B\s*2\s*\(111–140\)/g
    Fix(Seq_(<<Lit("MODULESCOREA"), Ws0, Lit("2"), Ws0, Lit(Range51 \o "B"), Ws0,
               Lit("1"), Ws0, Lit(Range81 \o "B"), Ws0, Lit("2"), Ws0, Lit(Range111)>>),
        <<Text_("MODULES\nSCORE\nA2 " \o Range51 \o "\nB1 " \o Range81 \o "\nB2 "
                \o Range111)>>),
    Fix(Lit("SCORECEFR"), <<Text_("SCORE\nCEFR")>>),
    Fix(Spaced(<<"B", "2", "B", "2", "B", "2">>), <<Text_("B2 B2 B2")>>),
    Fix(Spaced(<<"B", "1", "B", "1">>), <<Text_("B1 B1")>>),
    Fix(Spaced(<<"A", "2", "A", "2">>), <<Text_("A2 A2")>>),
    Fix(Spaced(<<"Below", "A", "2", "Below", "A", "2">>), <<Text_("Below A2 Below A2")>>),
    Fix(Spaced(<<"Below", "B", "2">>), <<Text_("Below B2")>>),
    Fix(Spaced(<<"C", "1">>), <<Text_("C1")>>),
    Fix(Spaced(<<"A", "2,", "B", "1,", "and", "B", "2">>), <<Text_("A2, B1, and B2")>>),
    \* /A\s+0\s*3\s*2/g
    Fix(Seq_(<<Lit("A"), Ws1, Lit("0"), Ws0, Lit("3"), Ws0, Lit("2")>>), <<Text_("AM032")>>),
    \* /(\d{1,2}\s+[A-Za-z]+\s+\d{4})(\d{6})/g
    Fix(Seq_(<<Seq_(<<Cls(DigitSet, 1, 2), Ws1, Cls(AlphaSet, 1, -1), Ws1,
                      Cls(DigitSet, 4, 4)>>),
               Cls(DigitSet, 6, 6)>>),
        <<Part(1), Text_("\n"), Part(2)>>),
    Fix(Spaced(<<"TestingTT", "1", "regression">>), <<Text_("TestingTT1 regression")>>),
    \* /B\s+2\s*\(111–140\)/g
    Fix(Seq_(<<Lit("B"), Ws1, Lit("2"), Ws0, Lit(Range111)>>), <<Text_("B2 " \o Range111)>>),
    \* /A\s+2\s*\(51–80\)/g
    Fix(Seq_(<<Lit("A"), Ws1, Lit("2"), Ws0, Lit(Range51)>>), <<Text_("A2 " \o Range51)>>),
    \* /B\s+1\s*\(81–110\)/g
    Fix(Seq_(<<Lit("B"), Ws1, Lit("1"), Ws0, Lit(Range81)>>), <<Text_("B1 " \o Range81)>>),
    \* /(\d+–\d+)\s+C\s+2/g
    Fix(Seq_(<<RangeRe, Ws1, Lit("C"), Ws1, Lit("2")>>), <<Part(1), Text_("\nC2")>>),
    \* /(\d+–\d+)\s+(\d+–\d+)\s+(\d+–\d+)\s+(\d+–\d+)\s+(\d+–\d+)\s+(\d+–\d+)/g
    Fix(Seq_(<<RangeRe, Ws1, RangeRe, Ws1, RangeRe, Ws1, RangeRe, Ws1, RangeRe, Ws1,
               RangeRe>>),
        <<Part(1), Text_("\n"), Part(3), Text_("\n"), Part(5), Text_("\n"), Part(7),
          Text_("\n"), Part(9), Text_("\n"), Part(11)>>) >>

generalFixes == <<
    \* /([A-Z])\s*(\d{2,3})/g
    Fix(Seq_(<<Cls(UpperSet, 1, 1), Ws0, Cls(DigitSet, 2, 3)>>), <<Part(1), Part(3)>>),
    \* /(\d)([A-Z])/g
    Fix(Seq_(<<Cls(DigitSet, 1, 1), Cls(UpperSet, 1, 1)>>), <<Part(1), Text_(" "), Part(2)>>),
    \* /([A-Z])(\d)/g
    Fix(Seq_(<<Cls(UpperSet, 1, 1), Cls(DigitSet, 1, 1)>>), <<Part(1), Text_(" "), Part(2)>>),
    \* /\s{2,}/g
    Fix(Cls(JsWhitespace, 2, -1), <<Text_(" ")>>),
    \* /\n{3,}/g
    Fix(Cls({"\n"}, 3, -1), <<Text_("\n\n")>>) >>

\* fixes.forEach(([pattern, replacement]) => fixedText = fixedText.replace(...))
\* (no pattern matches in an empty text; the test of Len(fixedText) also
\* makes TLC work the text of a round out before the next round begins)
RECURSIVE applyFixes(_, _, _)
applyFixes(fixedText, fixes, k) ==
    IF k > Len(fixes) \/ Len(fixedText) = 0 THEN fixedText
    ELSE applyFixes(replace(fixedText, fixes[k].re, fixes[k].replacement), fixes, k + 1)

\* the function with its general fixes left out
fixOxfordSpecificOnly(text) == applyFixes(text, specificFixes, 1)

\* the whole function, for a string
fixOxfordTestTextMerging(text) ==
    applyFixes(applyFixes(text, specificFixes, 1), generalFixes, 1)

-----------------------------------------------------------------------------
(* fixOxfordTestTextMerging applied to a text and then to its own result.  *)

MaxOxfordFragments == 2

OxfordFragments ==
    {"B 1104", "B1104", "A032", "A 032", "C 1", "20 February 2009628253",
     "SCORECEFR", "\n\n\n", "  ", " ", "Below B 2", "171" \o EnDash \o "200 C 2",
     "A 2 " \o Range51, "score 7", "B 2 B 2 B 2", "cefr"}

InitOxford ==
    /\ pc = "fix"
    /\ \E n \in 1..MaxOxfordFragments : \E fs \in [1..n -> OxfordFragments] :
            givenText = concat(fs)
    /\ fixedOnce = ""
    /\ fixedTwice = ""
    /\ NoOrderingCall
    /\ NoClassifyCall
    /\ NoLinkCall
    /\ NoFileCall
    /\ NoWorkerCall
    /\ NoWaitCall

FixOnce ==
    /\ pc = "fix"
    /\ fixedOnce' = fixOxfordTestTextMerging(givenText)
    /\ pc' = "fixed"
    /\ UNCHANGED <<givenText, fixedTwice, orderVars, classifyVars, linkVars, fileVars,
                   workerVars, waitVars>>

FixTwice ==
    /\ pc = "fixed"
    /\ fixedTwice' = fixOxfordTestTextMerging(fixedOnce)
    /\ pc' = "fixed twice"
    /\ UNCHANGED <<givenText, fixedOnce, orderVars, classifyVars, linkVars, fileVars,
                   workerVars, waitVars>>

NextOxford == FixOnce \/ FixTwice

SpecOxford == InitOxford /\ [][NextOxford]_vars

-----------------------------------------------------------------------------
(* Claims on fixOxfordTestTextMerging.                                     *)

\* C17 as claimed: the function is idempotent; applied to its own result it
\* returns that result.
Cex_C17_Idempotent == pc = "fixed twice" => fixedTwice = fixedOnce

-----------------------------------------------------------------------------
(* extractText and batchExtract.  A value that may be null is a tuple of   *)
(* no element (null) or of one element.                                    *)

\* path.basename(p), path.extname(p), path.basename(p, ext), and
\* path.join(dir, name) for a dir written as "x/y", "./x/y" or "x/y/"
lastIndexOf(s, c) == MaxOf({0} \cup {k \in 1..Len(s) : Ch(s, k) = c})
endsWith(s, p) == Len(p) <= Len(s) /\ SubSeq(s, Len(s) - Len(p) + 1, Len(s)) = p
lastSegment(p) == SubSeq(p, lastIndexOf(p, "/") + 1, Len(p))
extnameOfBase(base, dot) == IF dot <= 1 THEN "" ELSE SubSeq(base, dot, Len(base))
extname(p) == extnameOfBase(lastSegment(p), lastIndexOf(lastSegment(p), "."))
withoutExt(base, ext) ==
    IF ext # "" /\ base # ext /\ endsWith(base, ext)
    THEN SubSeq(base, 1, Len(base) - Len(ext)) ELSE base
basename(p, ext) == withoutExt(lastSegment(p), ext)
RECURSIVE normalizeDir(_)
normalizeDir(dir) ==
    IF startsWith(dir, "./") THEN normalizeDir(SubSeq(dir, 3, Len(dir)))
    ELSE IF endsWith(dir, "/") THEN SubSeq(dir, 1, Len(dir) - 1)
    ELSE dir
pathJoin(dir, name) == normalizeDir(dir) \o "/" \o name

\* mime.lookup: the type of the extension, null for a path without a known
\* extension (the extensions of FilePool, from the table of mime-db)
lookup(filePath) ==
    CASE toLowerCase(extname(filePath)) = ".txt" -> <<"text/plain">>
      [] toLowerCase(extname(filePath)) = ".md" -> <<"text/markdown">>
      [] toLowerCase(extname(filePath)) = ".png" -> <<"image/png">>
      [] toLowerCase(extname(filePath)) = ".pdf" -> <<"application/pdf">>
      [] toLowerCase(extname(filePath)) = ".mp3" -> <<"audio/mpeg">>
      [] OTHER -> <<>>

getSupportedFormats ==
    [type \in {"image/jpeg", "image/jpg", "image/png", "image/gif", "image/bmp",
               "image/tiff", "image/webp"} |-> "extractTextFromImage"]
    @@ ("application/pdf" :> "extractTextFromPDF")
    @@ ("application/vnd.openxmlformats-officedocument.wordprocessingml.document"
            :> "extractTextFromDocx")
    @@ ("application/vnd.ms-excel" :> "extractTextFromExcel")
    @@ ("application/vnd.openxmlformats-officedocument.spreadsheetml.sheet"
            :> "extractTextFromExcel")
    @@ ("text/csv" :> "extractTextFromCSV")
    @@ ("text/html" :> "extractTextFromHTML")
    @@ ("text/plain" :> "extractTextFromText")
    @@ ("application/rtf" :> "extractTextFromRTF")
    @@ ("text/markdown" :> "extractTextFromText")

\* line 60
mimeTypeOf(found) == IF found = <<>> THEN "application/octet-stream" ELSE found[1]

Error(message) == [name |-> "Error", message |-> message]

\* lines 75 and 101
isOxfordTest(safeText) ==
    \/ includes(toLowerCase(safeText), "oxford test")
    \/ includes(toLowerCase(safeText), "cefr")

\* lines 74-77
cleanedTextOf(safeText) ==
    IF isOxfordTest(safeText) THEN fixOxfordTestTextMerging(safeText) ELSE safeText

\* lines 80-85
orderedOr(cleaned, ordered) ==
    IF ordered = cleaned THEN reconstructMixedText(cleaned) ELSE ordered
orderedTextOf(cleaned) == orderedOr(cleaned, fixTextOrdering(cleaned))

\* line 90
linksOf(ordered) == extractLinks(ordered)

\* lines 100-108; the record extractOxfordTestStructuredData builds is kept as
\* the text it is built from
structuredDataOf(safeText, ordered, thrown) ==
    IF isOxfordTest(safeText) /\ ~thrown THEN <<[extractedFrom |-> ordered]>> ELSE <<>>

\* line 109 without its test of links.length
savesAlways(options, links) == options.saveLinksToJson # <<FALSE>>

\* line 109: options.saveLinksToJson !== false && links && links.length > 0
savesLinks(options, links) == options.saveLinksToJson # <<FALSE>> /\ Len(links) > 0

\* lines 117-124
resultOf(c) ==
    [text |-> c.orderedText, mimeType |-> c.mimeType, links |-> c.links,
     filePath |-> c.filePath, savedLinksJson |-> c.savedJsonPath,
     structuredData |-> c.structuredData]

\* the catch of lines 125-128 with a new error in place of the one caught
rethrowWrapped(error) == Error("Error extracting text: " \o error.message)

\* lines 125-128: throw error
rethrow(error) == error

returned(c) == [c EXCEPT !.pc = "returned", !.outcome = <<[value |-> resultOf(c)]>>]
\* (raised: the error at the place where it was thrown)
thrown(c, error) ==
    [c EXCEPT !.pc = "thrown", !.raised = <<error>>,
              !.outcome = <<[error |-> rethrow(error)]>>]

\* the frame of a call extractText(filePath, options) at its first await
\* (extractLinksCalls, saveLinksToJsonCalls: the calls made so far; caught:
\* the callees whose error a catch of lines 91, 104 and 112 has caught)
callOf(filePath, options) ==
    [pc |-> "pathExists", filePath |-> filePath, options |-> options,
     mimeType |-> "", orderedText |-> "", links |-> <<>>, structuredData |-> <<>>,
     savedJsonPath |-> <<>>, jsonFilePath |-> "", linkData |-> <<>>,
     extractLinksCalls |-> 0, saveLinksToJsonCalls |-> 0, raised |-> <<>>,
     caught |-> {}, outcome |-> <<>>]

\* lines 56-68, from the end of the await of line 56 to the await of line 68
afterLookup(c, mimeType) ==
    IF mimeType \notin DOMAIN getSupportedFormats
    THEN thrown(c, Error("Unsupported file type: " \o mimeType))
    ELSE [c EXCEPT !.pc = "extractor", !.mimeType = mimeType]
afterPathExists(c, exists) ==
    IF ~exists THEN thrown(c, Error("File not found: " \o c.filePath))
    ELSE afterLookup(c, mimeTypeOf(lookup(c.filePath)))

\* saveLinksToJson, lines 773-781, to its first await
defaultOutputDir == "./shared-objects/extracted-links"
outputDirOf(options) ==
    IF options.outputDir = <<>> THEN defaultOutputDir ELSE options.outputDir[1]
enterSaveLinksToJson(c) ==
    IF Len(c.links) = 0
    THEN returned([c EXCEPT !.saveLinksToJsonCalls = 1])
    ELSE [c EXCEPT !.pc = "ensureDir", !.saveLinksToJsonCalls = 1]

\* lines 69-115, from the end of the await of line 68 to the next await or to
\* the return
withLinks(c, safeText, ordered, links, linksThrown, dataThrown) ==
    [c EXCEPT !.orderedText = ordered,
              !.links = IF linksThrown THEN <<>> ELSE links,
              !.extractLinksCalls = 1,
              !.caught = (IF linksThrown THEN {"extractLinks"} ELSE {})
                         \cup (IF dataThrown /\ isOxfordTest(safeText)
                               THEN {"extractOxfordTestStructuredData"} ELSE {}),
              !.structuredData = structuredDataOf(safeText, ordered, dataThrown)]
savedOrReturned(c) ==
    IF savesLinks(c.options, c.links) THEN enterSaveLinksToJson(c) ELSE returned(c)
\* (ordered and links are orderedText and what extractLinks returns for it)
afterExtractor(c, safeText, ordered, links, linksThrown, dataThrown) ==
    savedOrReturned(withLinks(c, safeText, ordered, links, linksThrown, dataThrown))

\* saveLinksToJson, lines 783-809
jsonFileName(baseName) == baseName \o "_extracted_links.json"
jsonFilePathOf(filePath, outputDir) ==
    pathJoin(outputDir, jsonFileName(basename(filePath, extname(filePath))))
\* linkData without its testMetadata.extractedAt, searchTerm and testStage
linkDataOf(links, filePath) ==
    [originalFile |-> filePath,
     totalLinks |-> Len(links),
     links |-> [k \in 1..Len(links) |->
                  [id |-> k, url |-> links[k], type |-> categorizeLinkType(links[k]),
                   extractedFrom |-> basename(filePath, extname(filePath))]]]

\* the catch of line 112 with the error thrown on
afterSaveFailedRejects(c) == thrown(c, Error("ENOSPC: no space left on device"))

\* lines 815-818 and 112-114: the error of ensureDir or of writeJson is thrown
\* by saveLinksToJson and caught by extractText; savedJsonPath stays null
afterSaveFailed(c) == returned(c)

\* from the end of the await of line 781 to the await of line 812
afterEnsureDir(c, ok) ==
    IF ~ok THEN afterSaveFailed([c EXCEPT !.caught = @ \cup {"saveLinksToJson"}])
    ELSE [c EXCEPT !.pc = "writeJson",
                   !.jsonFilePath = jsonFilePathOf(c.filePath, outputDirOf(c.options)),
                   !.linkData = linkDataOf(c.links, c.filePath)]

\* from the end of the await of line 812 to the return of extractText
afterWriteJson(c, ok) ==
    IF ~ok THEN afterSaveFailed([c EXCEPT !.caught = @ \cup {"saveLinksToJson"}])
    ELSE returned([c EXCEPT !.savedJsonPath = <<c.jsonFilePath>>])

\* fs.writeJson: the file at path holds data
written(files, path, data) ==
    {f \in files : f.path # path} \cup {[path |-> path, data |-> data]}

\* the callback of filePaths.map without its catch
callbackNoCatch(c) ==
    IF "value" \in DOMAIN c.outcome[1]
    THEN [pushed |-> <<c.outcome[1].value>>, rejected |-> FALSE]
    ELSE [pushed |-> <<>>, rejected |-> TRUE]

\* batchExtract, lines 960-970: the callback of filePaths.map once extractText
\* has settled; pushed is what it pushes to results
callback(c) ==
    IF "value" \in DOMAIN c.outcome[1]
    THEN [pushed |-> <<c.outcome[1].value>>, rejected |-> FALSE]
    ELSE [pushed |-> <<[error |-> c.outcome[1].error.message, filePath |-> c.filePath]>>,
          rejected |-> FALSE]

\* Promise.all (line 972) and the return of line 973
allSettled(cs) == \A k \in 1..Len(cs) : cs[k].outcome # <<>>
batchAfter(cs, cb) ==
    IF batch # "pending" THEN batch
    ELSE IF cb.rejected THEN "rejected"
    ELSE IF allSettled(cs) THEN "resolved"
    ELSE "pending"

\* call i goes on to the frame c
Step(i, c) ==
    /\ calls' = [calls EXCEPT ![i] = c]
    /\ IF batch = "none" \/ c.outcome = <<>>
       THEN UNCHANGED <<results, batch>>
       ELSE /\ results' = results \o callback(c).pushed
            /\ batch' = batchAfter([calls EXCEPT ![i] = c], callback(c))

-----------------------------------------------------------------------------
(* One call of extractText, or one call of batchExtract, on the files of   *)
(* FilePool.                                                               *)

MaxBatchFiles == 2

FilePool ==
    {"docs/a.txt", "docs/b.txt", "docs/none.txt", "docs/song.mp3", "scans/a.png",
     "docs/cefr.md"}
ExistingFiles == FilePool \ {"docs/none.txt"}

\* what the extractor of the file returns when it does not throw
textOf(filePath) ==
    CASE filePath = "docs/a.txt" -> "see www.site.org now"
      [] filePath = "scans/a.png" -> "mail info@example.com"
      [] filePath = "docs/cefr.md" -> "CEFR B1104"
      [] OTHER -> "plain words"

ExtractorErrors == {Error("EACCES: permission denied")}

\* lines 71-90 for the text of each file of FilePool, worked out once: what
\* the steps of a call read is the value for the file of the call
orderedTextOfFile ==
    [filePath \in FilePool |-> orderedTextOf(cleanedTextOf(textOf(filePath)))]
linksOfFile == [filePath \in FilePool |-> linksOf(orderedTextOfFile[filePath])]

OptionsPool ==
    [saveLinksToJson : {<<>>, <<TRUE>>, <<FALSE>>}, outputDir : {<<>>, <<"out/">>}]
noOptions == [saveLinksToJson |-> <<>>, outputDir |-> <<>>]

\* extractText(filePath, options) has been called
InitExtractText ==
    /\ \E filePath \in FilePool : \E options \in OptionsPool :
          /\ filePaths = <<filePath>>
          /\ calls = <<callOf(filePath, options)>>
    /\ results = <<>>
    /\ batch = "none"

\* batchExtract(filePaths) has been called: lines 959-972, every callback has
\* run to the first await of its extractText call
InitBatchExtract ==
    /\ \E n \in 1..MaxBatchFiles : filePaths \in [1..n -> FilePool]
    /\ calls = [k \in 1..Len(filePaths) |-> callOf(filePaths[k], noOptions)]
    /\ results = <<>>
    /\ batch = "pending"

InitExtract ==
    /\ pc = "extract text"
    /\ InitExtractText \/ InitBatchExtract
    /\ disk = {}
    /\ NoOrderingCall
    /\ NoClassifyCall
    /\ NoLinkCall
    /\ NoTwiceCall
    /\ NoWorkerCall
    /\ NoWaitCall

otherThanFiles == <<pc, orderVars, classifyVars, linkVars, twiceVars, workerVars, waitVars>>

\* the await of line 56 ends
PathExists(i) ==
    /\ calls[i].pc = "pathExists"
    /\ Step(i, afterPathExists(calls[i], calls[i].filePath \in ExistingFiles))
    /\ UNCHANGED <<filePaths, disk, otherThanFiles>>

\* the await of line 68 ends: the extractor throws
ExtractorThrows(i) ==
    /\ calls[i].pc = "extractor"
    /\ \E error \in ExtractorErrors : Step(i, thrown(calls[i], error))
    /\ UNCHANGED <<filePaths, disk, otherThanFiles>>

\* the await of line 68 ends: the extractor returns the text of the file
ExtractorReturns(i) ==
    /\ calls[i].pc = "extractor"
    /\ \E linksThrown, dataThrown \in BOOLEAN :
          Step(i, afterExtractor(calls[i], textOf(calls[i].filePath),
                                 orderedTextOfFile[calls[i].filePath],
                                 linksOfFile[calls[i].filePath], linksThrown, dataThrown))
    /\ UNCHANGED <<filePaths, disk, otherThanFiles>>

\* the await of line 781 ends
EnsureDir(i) ==
    /\ calls[i].pc = "ensureDir"
    /\ \E ok \in BOOLEAN : Step(i, afterEnsureDir(calls[i], ok))
    /\ UNCHANGED <<filePaths, disk, otherThanFiles>>

\* the await of line 812 ends: the file is written
WriteJson(i) ==
    /\ calls[i].pc = "writeJson"
    /\ Step(i, afterWriteJson(calls[i], TRUE))
    /\ disk' = written(disk, calls[i].jsonFilePath, calls[i].linkData)
    /\ UNCHANGED <<filePaths, otherThanFiles>>

\* the await of line 812 ends: writeJson throws
WriteJsonThrows(i) ==
    /\ calls[i].pc = "writeJson"
    /\ Step(i, afterWriteJson(calls[i], FALSE))
    /\ UNCHANGED <<filePaths, disk, otherThanFiles>>

NextExtract ==
    \E i \in 1..Len(calls) :
        \/ PathExists(i)
        \/ ExtractorThrows(i)
        \/ ExtractorReturns(i)
        \/ EnsureDir(i)
        \/ WriteJson(i)
        \/ WriteJsonThrows(i)

SpecExtract == InitExtract /\ [][NextExtract]_vars

-----------------------------------------------------------------------------
(* Claims on extractText and batchExtract.                                 *)

Call(i) == calls[i]
Calls == {calls[i] : i \in 1..Len(calls)}
valueOf(c) == c.outcome[1].value

\* C13: a call of extractText that has found no link does not call
\* saveLinksToJson, prepares and writes no report file, and returns
\* savedLinksJson = null, whatever options.saveLinksToJson is.
Thm_C13_NoLinksNoSave ==
    \A c \in Calls :
        (c.extractLinksCalls = 1 /\ Len(c.links) = 0) =>
            /\ c.saveLinksToJsonCalls = 0
            /\ c.pc = "returned"
            /\ valueOf(c).savedLinksJson = <<>>
            /\ c.jsonFilePath = ""
            /\ \A f \in disk : batch = "none" => f.data.originalFile # c.filePath

\* a call with saveLinksToJson: true has returned a record without links
Wit_C13_NoLinksSaveWanted ==
    \E c \in Calls :
        /\ c.pc = "returned"
        /\ c.options.saveLinksToJson = <<TRUE>>
        /\ valueOf(c).links = <<>>
        /\ "extractLinks" \notin c.caught

\* the entry of the file of call i: the record extractText returned, or the
\* message of the error it threw and the path
entryOf(c) ==
    IF c.pc = "returned" THEN valueOf(c)
    ELSE [error |-> c.outcome[1].error.message, filePath |-> c.filePath]
entries == [i \in 1..Len(calls) |-> entryOf(calls[i])]

\* the awaits of extractText and of saveLinksToJson; for each there is a step
\* that has no other condition than that the call is at it
AwaitPoints == {"pathExists", "extractor", "ensureDir", "writeJson"}

\* C14: the promise of batchExtract is never rejected; while a call is not
\* settled it stays pending, and a call that is not settled is at an await,
\* whatever has become of the other calls; when it is resolved every call is settled and results holds one
\* entry for each input path: the record of a call that returned, {error,
\* filePath} for a call that threw.
Thm_C14_BatchNeverRejects ==
    batch # "none" =>
        /\ batch # "rejected"
        /\ batch = "pending" <=> \E c \in Calls : c.outcome = <<>>
        /\ \A c \in Calls : c.outcome = <<>> => c.pc \in AwaitPoints
        /\ Len(results) = Cardinality({i \in 1..Len(calls) : calls[i].outcome # <<>>})
        /\ batch = "resolved" =>
              /\ Len(results) = Len(filePaths)
              /\ SameLineBag(results, entries)

\* a batch of two files is resolved, one file failed before the other was
\* done and the other returned a record
Wit_C14_OneFailedOneDone ==
    /\ batch = "resolved"
    /\ Len(filePaths) = 2
    /\ calls[1].pc = "thrown"
    /\ calls[2].pc = "returned"
    /\ results[1] = entryOf(calls[1])

\* C20 as claimed: the array batchExtract resolves with is in input order,
\* entry i is the entry of filePaths[i].
Cex_C20_InputOrder ==
    batch = "resolved" =>
        \A i \in 1..Len(filePaths) :
            /\ results[i].filePath = filePaths[i]
            /\ results[i] = entryOf(calls[i])

\* what extractText throws before it has a text, by the case of the file
isMissing(c) == c.filePath \notin ExistingFiles
isUnsupported(c) ==
    ~isMissing(c) /\ mimeTypeOf(lookup(c.filePath)) \notin DOMAIN getSupportedFormats

\* C15: a call for a missing path, for a type without extractor, or whose
\* extractor threw, is rejected with the very error that was thrown ('File
\* not found', 'Unsupported file type', or the error of the extractor); it
\* returns no record, has called neither extractLinks nor saveLinksToJson and
\* has written no report.
Thm_C15_ErrorPropagates ==
    \A c \in Calls :
        /\ (c.outcome # <<>> /\ isMissing(c)) =>
              c.raised = <<Error("File not found: " \o c.filePath)>>
        /\ (c.outcome # <<>> /\ isUnsupported(c)) =>
              c.raised = <<Error("Unsupported file type: "
                                 \o mimeTypeOf(lookup(c.filePath)))>>
        /\ (c.raised # <<>>) =>
              /\ c.pc = "thrown"
              /\ c.outcome = <<[error |-> c.raised[1]]>>
              /\ c.extractLinksCalls = 0
              /\ c.saveLinksToJsonCalls = 0
              /\ c.jsonFilePath = ""
              /\ batch = "none" => disk = {}

\* the extractor of a file that exists and has an extractor has thrown
Wit_C15_ExtractorThrew ==
    \E c \in Calls :
        /\ c.pc = "thrown"
        /\ ~isMissing(c)
        /\ ~isUnsupported(c)
        /\ c.outcome[1].error \in ExtractorErrors

\* C16: a call that has its text is never rejected: when extractLinks threw
\* its links are [], when saveLinksToJson threw (in ensureDir or in
\* writeJson) savedLinksJson is null, and the record returned carries the
\* ordered text of the file.
Thm_C16_LateFailuresCaught ==
    \A c \in Calls :
        (c.extractLinksCalls = 1) =>
            /\ c.pc # "thrown"
            /\ "extractLinks" \in c.caught => c.links = <<>>
            /\ (c.pc = "returned") =>
                  /\ valueOf(c).text = orderedTextOfFile[c.filePath]
                  /\ valueOf(c).links = c.links
                  /\ "saveLinksToJson" \in c.caught => valueOf(c).savedLinksJson = <<>>

\* one call of a batch has returned after extractLinks threw, another after
\* saveLinksToJson threw on links it had found
Wit_C16_BothFailuresCaught ==
    \E c, d \in Calls :
        /\ c.pc = "returned" /\ "extractLinks" \in c.caught
        /\ valueOf(c).text # ""
        /\ d.pc = "returned" /\ "saveLinksToJson" \in d.caught
        /\ Len(valueOf(d).links) > 0
        /\ valueOf(d).text # ""

\* ---------------------------------------------------------------------------
\* getWorker and extractTextFromImage: the shared OCR worker
\*
\* created holds the state of the promise of every createWorker() call, in
\* the order of the calls; a promise and the worker it resolves with are named
\* by their place in it. getting holds a frame per extractTextFromImage call.

MaxWorkerCalls == 3

otherThanWorker == <<pc, orderVars, classifyVars, linkVars, twiceVars, fileVars, waitVars>>

\* lines 19-21 without the test: createWorker() is called whenever no worker
\* is there yet
createWorkerAlways(workerPromise, n) == <<n + 1>>

\* lines 19-21: the promise that line 22 awaits, n promises having been made
ensureWorkerPromise(workerPromise, n) ==
    IF workerPromise = <<>> THEN <<n + 1>> ELSE workerPromise

\* the frame of a call that found _worker set (line 18 false, line 24)
gotWorker(worker) ==
    [pc |-> "line 132", awaited |-> <<>>, worker |-> worker]

\* the frame of a call suspended at the await of line 22
awaitingWorker(promise) ==
    [pc |-> "line 22", awaited |-> promise, worker |-> <<>>]

InitWorker ==
    /\ pc = "image extractions"
    /\ NoOrderingCall
    /\ NoClassifyCall
    /\ NoLinkCall
    /\ NoTwiceCall
    /\ NoFileCall
    /\ NoWorkerCall
    /\ NoWaitCall

\* extractTextFromImage is called: line 132 calls getWorker, which runs to
\* its return (line 24) or to its await (line 22)
ExtractTextFromImage ==
    /\ pc = "image extractions"
    /\ Len(getting) < MaxWorkerCalls
    /\ IF _worker # <<>>
         THEN /\ getting' = Append(getting, gotWorker(_worker))
              /\ UNCHANGED <<_workerPromise, created>>
         ELSE /\ _workerPromise' = ensureWorkerPromise(_workerPromise, Len(created))
              /\ created' = IF _workerPromise'[1] > Len(created)
                              THEN Append(created, "pending")
                              ELSE created
              /\ getting' = Append(getting, awaitingWorker(_workerPromise'))
    /\ UNCHANGED <<_worker, otherThanWorker>>

\* the promise of a createWorker() call is fulfilled with its worker
CreateWorkerResolves(k) ==
    /\ created[k] = "pending"
    /\ created' = [created EXCEPT ![k] = "fulfilled"]
    /\ UNCHANGED <<_worker, _workerPromise, getting, otherThanWorker>>

\* the promise of a createWorker() call is rejected
CreateWorkerRejects(k) ==
    /\ created[k] = "pending"
    /\ created' = [created EXCEPT ![k] = "rejected"]
    /\ UNCHANGED <<_worker, _workerPromise, getting, otherThanWorker>>

\* the await of line 22 ends: _worker is assigned and returned (line 24), or
\* getWorker rejects and extractTextFromImage with it
ResumeGetWorker(i) ==
    /\ getting[i].pc = "line 22"
    /\ created[getting[i].awaited[1]] # "pending"
    /\ IF created[getting[i].awaited[1]] = "fulfilled"
         THEN /\ _worker' = getting[i].awaited
              /\ getting' = [getting EXCEPT ![i].pc = "line 132",
                                            ![i].worker = _worker']
         ELSE /\ getting' = [getting EXCEPT ![i].pc = "rejected"]
              /\ UNCHANGED _worker
    /\ UNCHANGED <<_workerPromise, created, otherThanWorker>>

\* the await of line 132 ends and worker.recognize is called (line 135)
Recognize(i) ==
    /\ getting[i].pc = "line 132"
    /\ getting' = [getting EXCEPT ![i].pc = "recognize"]
    /\ UNCHANGED <<_worker, _workerPromise, created, otherThanWorker>>

\* recognize resolves and the text is returned (line 159)
RecognizeReturns(i) ==
    /\ getting[i].pc = "recognize"
    /\ getting' = [getting EXCEPT ![i].pc = "returned"]
    /\ UNCHANGED <<_worker, _workerPromise, created, otherThanWorker>>

NextWorker ==
    \/ ExtractTextFromImage
    \/ \E k \in 1..Len(created) : CreateWorkerResolves(k)
    \/ \E k \in 1..Len(created) : CreateWorkerRejects(k)
    \/ \E i \in 1..Len(getting) : ResumeGetWorker(i)
    \/ \E i \in 1..Len(getting) : Recognize(i)
    \/ \E i \in 1..Len(getting) : RecognizeReturns(i)

SpecWorker == InitWorker /\ [][NextWorker]_vars

Getting == {getting[i] : i \in 1..Len(getting)}

\* C19: over every interleaving of image extractions, started while others
\* are suspended or after they have finished, createWorker is called at most
\* once and not before the first extraction, every call that awaits awaits
\* that one promise, and every call that has a worker has the worker of that
\* promise, which is the one recognize is called on.
Thm_C19_SingletonWorker ==
    /\ Len(created) <= 1
    /\ Len(getting) = 0 => Len(created) = 0
    /\ _worker # <<>> => (_worker = <<1>> /\ created[1] = "fulfilled")
    /\ \A c \in Getting :
          /\ c.awaited # <<>> => c.awaited = <<1>>
          /\ c.worker # <<>> => c.worker = <<1>>
          /\ c.pc \in {"line 132", "recognize", "returned"} => c.worker = <<1>>
          /\ c.pc = "rejected" => created[1] = "rejected"

\* two calls were suspended at line 22 together, a third was made when the
\* worker was there, and all three have returned a text read by one worker
Wit_C19_ConcurrentAndSequential ==
    /\ Len(getting) = 3
    /\ getting[1].awaited = <<1>>
    /\ getting[2].awaited = <<1>>
    /\ getting[3].awaited = <<>>
    /\ \A c \in Getting : c.pc = "returned" /\ c.worker = <<1>>

\* ---------------------------------------------------------------------------
\* fixTextOrdering applied to its own output

MaxReorderLines == 5

ReorderPool == {"REPORT TITLE", "Body line one.", "  Page 3", ""}

InitReorder ==
    /\ pc = "reorder"
    /\ \E n \in 1..MaxReorderLines : \E ls \in [1..n -> ReorderPool] :
            givenText = join(ls)
    /\ fixedOnce = ""
    /\ fixedTwice = ""
    /\ NoOrderingCall
    /\ NoClassifyCall
    /\ NoLinkCall
    /\ NoFileCall
    /\ NoWorkerCall
    /\ NoWaitCall

ReorderOnce ==
    /\ pc = "reorder"
    /\ fixedOnce' = fixTextOrdering(givenText)
    /\ pc' = "reordered"
    /\ UNCHANGED <<givenText, fixedTwice, orderVars, classifyVars, linkVars, fileVars,
                   workerVars, waitVars>>

ReorderTwice ==
    /\ pc = "reordered"
    /\ fixedTwice' = fixTextOrdering(fixedOnce)
    /\ pc' = "reordered twice"
    /\ UNCHANGED <<givenText, fixedOnce, orderVars, classifyVars, linkVars, fileVars,
                   workerVars, waitVars>>

NextReorder == ReorderOnce \/ ReorderTwice

SpecReorder == InitReorder /\ [][NextReorder]_vars

\* the loop of lines 253-271 puts all the lines of the text into one block
isSingleBlock(lines) ==
    Len(lines) > 3 /\ Len(segmentBlocks(analyzeLines(lines))) = 1

\* C18: when the lines of a text make one block, fixTextOrdering of the
\* result of fixTextOrdering is that result.
Thm_C18_SingleBlockIdempotent ==
    (pc = "reordered twice" /\ isSingleBlock(linesOf(givenText))) =>
        fixedTwice = fixedOnce

\* a text of one block with a blank line, which the first call removes, and
\* an indented line, which it keeps, has been reordered twice
Wit_C18_BlankLineRemoved ==
    /\ pc = "reordered twice"
    /\ isSingleBlock(linesOf(givenText))
    /\ fixedOnce # givenText
    /\ Len(split(givenText)) > Len(split(fixedOnce))
    /\ \E k \in 1..Len(split(fixedOnce)) : split(fixedOnce)[k] = "  Page 3"
    /\ fixedTwice = fixedOnce

\* ---------------------------------------------------------------------------
\* the ordering stage on lines that match a header and a footer pattern

MaxDualLines == 4

\* 'CONFIDENTIAL' is a title and a status line, 'Report draft' a document
\* type and a status line
DualPool == {"Body line one.", "second body line", "CONFIDENTIAL", "Report draft"}

InitDual ==
    /\ pc = "start"
    /\ \E n \in 1..MaxDualLines : \E ls \in [1..n -> DualPool] : cleanedText = join(ls)
    /\ analyzedLines = <<>>
    /\ contentBlocks = <<>>
    /\ orderedText = ""
    /\ NoClassifyCall
    /\ NoLinkCall
    /\ NoLaterCall

SpecDual == InitDual /\ [][NextOrdering]_vars

\* C21: after the sort of lines 274-278 no block that begins with a footer
\* line stands before a block that begins with a line that is no footer,
\* also when the footer line matches a header pattern.
Cex_C21_FooterBlocksLast ==
    (pc = "sorted") =>
        \A i, j \in 1..Len(contentBlocks) :
            (i < j /\ contentBlocks[i][1].isFooter) => contentBlocks[j][1].isFooter

\* ---------------------------------------------------------------------------
\* the blocks of the segmentation loop, seen from the analysed lines

\* the 1-based places in analyzedLines at which the blocks begin
RECURSIVE blockStarts(_, _)
blockStarts(blocks, at) ==
    IF blocks = <<>> THEN {}
    ELSE {at} \cup blockStarts(Tail(blocks), at + Len(Head(blocks)))

isSectionHeader(l) == l.lineType \in {"title", "document_type"}
lengthGap(l, before) == Abs(Len(l.text) - Len(before.text)) > 60

\* the k-th line fires one of the four triggers; lines before it exist
fires(al, k) ==
    \/ isSectionHeader(al[k])
    \/ al[k].isFooter
    \/ lengthGap(al[k], al[k - 1])
    \/ k < Len(al) /\ al[k + 1].lineType = "title"

\* C22: the blocks after the loop are the analysed lines cut at the first
\* line and at every later line for which a trigger fires, and nowhere else;
\* so a title or document_type line, a footer line and a line whose trimmed
\* text is over 60 characters longer or shorter than the one of the line
\* before it are each the first line of their block, also after the sort.
Thm_C22_FlushOnTrigger ==
    /\ (pc = "segmented") =>
          /\ flat(contentBlocks) = analyzedLines
          /\ \A b \in 1..Len(contentBlocks) : Len(contentBlocks[b]) > 0
          /\ blockStarts(contentBlocks, 1) =
                {1} \cup {k \in 2..Len(analyzedLines) : fires(analyzedLines, k)}
    /\ (pc \in {"segmented", "sorted"}) =>
          \A b \in 1..Len(contentBlocks) : \A k \in 2..Len(contentBlocks[b]) :
              /\ ~isSectionHeader(contentBlocks[b][k])
              /\ ~contentBlocks[b][k].isFooter
              /\ ~lengthGap(contentBlocks[b][k], contentBlocks[b][k - 1])

\* a footer line and a line that only the length test cuts begin blocks,
\* and another block holds two lines
Wit_C22_GapAndFooterCut ==
    /\ pc = "segmented"
    /\ \E k \in blockStarts(contentBlocks, 1) \ {1} :
          /\ analyzedLines[k].isFooter
    /\ \E k \in blockStarts(contentBlocks, 1) \ {1} :
          /\ ~analyzedLines[k].isFooter
          /\ ~isSectionHeader(analyzedLines[k])
          /\ ~(k < Len(analyzedLines) /\ analyzedLines[k + 1].lineType = "title")
          /\ lengthGap(analyzedLines[k], analyzedLines[k - 1])
    /\ \E b \in 1..Len(contentBlocks) : Len(contentBlocks[b]) = 2

\* ---------------------------------------------------------------------------
\* C23: the step of extractText after fixTextOrdering (lines 83-85) replaces
\* orderedText by reconstructMixedText(cleanedText) when fixTextOrdering
\* returned its argument character for character, and leaves it as it is
\* otherwise; the first is the case of every text of three non-blank lines or
\* fewer, the second of every longer text that holds a blank line.
Thm_C23_FallbackIffUnchanged ==
    [][(pc = "ordered") =>
          /\ orderedText = fixTextOrdering(cleanedText)
          /\ pc' = "done"
          /\ IF fixTextOrdering(cleanedText) = cleanedText
               THEN orderedText' = reconstructMixedText(cleanedText)
               ELSE orderedText' = orderedText
          /\ Len(linesOf(cleanedText)) <= 3 =>
                orderedText' = reconstructMixedText(cleanedText)
          /\ (/\ Len(linesOf(cleanedText)) > 3
              /\ Len(split(cleanedText)) > Len(linesOf(cleanedText))) =>
                (orderedText # cleanedText /\ orderedText' = orderedText)
      ]_vars

\* fixTextOrdering has only removed a blank line, and the text it returned
\* is the one extractText goes on with
Wit_C23_OnlyBlankRemoved ==
    /\ pc = "done"
    /\ orderedText # cleanedText
    /\ split(orderedText) = linesOf(cleanedText)
    /\ Len(split(cleanedText)) > Len(linesOf(cleanedText))
    /\ orderedText = fixTextOrdering(cleanedText)

\* ---------------------------------------------------------------------------
\* the ordering stage on texts with blank lines among more than three lines

MaxBlankLines == 5

\* an empty line, a line of white space, a line with white space at both
\* ends, and a title, which is moved to the front
BlankPool == {"  Body line one. ", "REPORT TITLE", "", " "}

InitBlank ==
    /\ pc = "start"
    /\ \E n \in 1..MaxBlankLines : \E ls \in [1..n -> BlankPool] : cleanedText = join(ls)
    /\ analyzedLines = <<>>
    /\ contentBlocks = <<>>
    /\ orderedText = ""
    /\ NoClassifyCall
    /\ NoLinkCall
    /\ NoLaterCall

SpecBlank == InitBlank /\ [][NextOrdering]_vars

Cex_C30_FixedPoint ==
    (pc = "reordered twice") => fixedTwice = fixedOnce

\* ---------------------------------------------------------------------------
\* the text holds n line feeds in a row
hasNewlineRun(text, n) ==
    \E i \in 1..(Len(text) - n + 1) : \A k \in i..(i + n - 1) : Ch(text, k) = "\n"

\* C24: when the text given to fixOxfordTestTextMerging holds three line
\* feeds or more in a row, its result holds two in a row and nowhere three.
Cex_C24_NewlinesCollapsedToTwo ==
    (pc = "fixed" /\ hasNewlineRun(givenText, 3)) =>
        (hasNewlineRun(fixedOnce, 2) /\ ~hasNewlineRun(fixedOnce, 3))

\* ---------------------------------------------------------------------------
\* the specific fixes with the replacements 'B1 104', 'C1', 'AM032' and
\* 'A2 (51-80)', by their place in specificFixes
NamedFixes == {4, 12, 14, 18}

\* the text the k-th specific fix is applied to
textBeforeFix(text, k) == applyFixes(text, SubSeq(specificFixes, 1, k - 1), 1)

\* the k-th specific fix replaces something in the text it is applied to
fixFires(text, k) == Test(specificFixes[k].re, textBeforeFix(text, k), FALSE)

\* C25: when one of the named specific fixes has replaced something, its
\* replacement text is part of the result of the function.
Cex_C25_SpecificFixKept ==
    (pc = "fixed") =>
        \A k \in NamedFixes :
            fixFires(givenText, k) =>
                includes(fixedOnce, specificFixes[k].replacement[1].lit)

\* ---------------------------------------------------------------------------
\* C26: when the links given hold a link and a shorter link that is a part
\* of it, every anchor that the round of the longer link writes is in the
\* text returned as it was written: the round of the shorter link, which
\* comes later, puts nothing inside it.
Cex_C26_LongerAnchorIntact ==
    (pc = "rendered") =>
        \A j, k \in 1..Len(givenLinks) :
            (/\ Len(givenLinks[k]) < Len(givenLinks[j])
             /\ includes(givenLinks[j], givenLinks[k])
             /\ includes(replaceLink(inputText, givenLinks[j]), linkHtmlOf(givenLinks[j])))
                => includes(clickableText, linkHtmlOf(givenLinks[j]))

\* ---------------------------------------------------------------------------
\* waitForText.  findTextPosition catches every error of its own and returns
\* null then (lines 1157-1160), so for waitForText a call of it ends with a
\* position or with null.

MaxAttemptsOption == 3
MaxLineIndex == 2
DefaultMaxAttempts == 10
LineHeight == 20
LineWidth == 800

otherThanWait ==
    <<pc, orderVars, classifyVars, linkVars, twiceVars, fileVars, workerVars>>

\* options.maxAttempts: absent, or a number of 0 or more
WaitOptions == [maxAttempts : {<<>>} \cup {<<n>> : n \in 0..MaxAttemptsOption}]

\* line 1166: options.maxAttempts || 10
maxAttemptsOf(options) ==
    IF options.maxAttempts = <<>> \/ options.maxAttempts[1] = 0
    THEN DefaultMaxAttempts
    ELSE options.maxAttempts[1]

\* lines 1141-1153: the position of a match at line i (text and confidence
\* are left out)
positionAt(i) ==
    [x |-> 0, y |-> i * LineHeight, width |-> LineWidth, height |-> LineHeight,
     lineIndex |-> i]

\* the searchText of the call
SearchText == "Total"

\* line 1184
notFound(maxAttempts) ==
    Error("Text \"" \o SearchText \o "\" not found after " \o ToString(maxAttempts)
          \o " attempts")

\* the test of line 1176 left out: the delay is awaited after every attempt
delayAlways(attempt, maxAttempts) == TRUE

\* line 1176
delayAfter(attempt, maxAttempts) == attempt < maxAttempts

\* attempt++ and the test of the for loop (line 1169), then line 1171 or
\* line 1184
nextAttempt(w) ==
    IF w.attempt + 1 <= w.maxAttempts
    THEN [w EXCEPT !.attempt = w.attempt + 1, !.pc = "findTextPosition",
                   !.findCalls = w.findCalls + 1]
    ELSE [w EXCEPT !.attempt = w.attempt + 1, !.pc = "thrown",
                   !.outcome = <<[error |-> notFound(w.maxAttempts)]>>]

\* lines 1165-1171: to the first await
waitForText(options) ==
    nextAttempt([options |-> options, maxAttempts |-> maxAttemptsOf(options),
                 attempt |-> 0, pc |-> "start", findCalls |-> 0, delays |-> 0,
                 outcome |-> <<>>])

InitWait ==
    /\ pc = "wait for text"
    /\ \E options \in WaitOptions : waiting = <<waitForText(options)>>
    /\ NoOrderingCall
    /\ NoClassifyCall
    /\ NoLinkCall
    /\ NoTwiceCall
    /\ NoFileCall
    /\ NoWorkerCall

\* findTextPosition resolves with a position: lines 1172-1174
FindReturnsPosition(i) ==
    /\ waiting[1].pc = "findTextPosition"
    /\ waiting' = <<[waiting[1] EXCEPT !.pc = "returned",
                                       !.outcome = <<[value |-> positionAt(i)]>>]>>
    /\ UNCHANGED otherThanWait

\* findTextPosition resolves with null: lines 1176-1178, or the next round
FindReturnsNull ==
    /\ waiting[1].pc = "findTextPosition"
    /\ waiting' = IF delayAfter(waiting[1].attempt, waiting[1].maxAttempts)
                    THEN <<[waiting[1] EXCEPT !.pc = "delay",
                                             !.delays = waiting[1].delays + 1]>>
                    ELSE <<nextAttempt(waiting[1])>>
    /\ UNCHANGED otherThanWait

\* the timer of line 1177 fires
DelayEnds ==
    /\ waiting[1].pc = "delay"
    /\ waiting' = <<nextAttempt(waiting[1])>>
    /\ UNCHANGED otherThanWait

NextWait ==
    \/ \E i \in 0..MaxLineIndex : FindReturnsPosition(i)
    \/ FindReturnsNull
    \/ DelayEnds

\* findTextPosition settles and the timer fires
SpecWait == InitWait /\ [][NextWait]_vars /\ WF_vars(NextWait)

\* what the claim says of a call whose bound on the attempts is n
waitsAtMost(w, n) ==
    /\ w.findCalls <= n
    /\ w.findCalls = (IF w.pc = "thrown" THEN w.attempt - 1 ELSE w.attempt)
    /\ w.pc = "findTextPosition" => w.delays = w.findCalls - 1
    /\ w.pc = "delay" => (w.delays = w.findCalls /\ w.findCalls < n)
    /\ w.pc = "returned" =>
          /\ w.delays = w.findCalls - 1
          /\ \E i \in 0..MaxLineIndex : w.outcome = <<[value |-> positionAt(i)]>>
    /\ w.pc = "thrown" =>
          /\ w.findCalls = n
          /\ w.delays = n - 1
          /\ w.outcome = <<[error |-> notFound(n)]>>

isSettled(w) == w.pc \in {"returned", "thrown"}

Cex_C28_ReportNotOverwritten ==
    (batch # "none" /\ distinctLines(filePaths)) =>
        \A c \in Calls :
            (c.pc = "returned" /\ c.savedJsonPath # <<>>) =>
                \E f \in disk :
                    /\ f.path = c.savedJsonPath[1]
                    /\ f.data.originalFile = c.filePath

=============================================================================
